---- MODULE Spec2Model ----
(***************************************************************************)
(* Model of the QaAI workflow pipeline: the LangGraph state graph built by *)
(* QaAIWorkflowGraph (apps/api/agents/graph.py), the seven stage functions *)
(* (apps/api/agents/nodes.py) and the model router                         *)
(* (apps/api/agents/router.py).                                            *)
(*                                                                         *)
(* Abstractions: the "[HH:MM:SS] " prefix that emit puts in front of each  *)
(* label is dropped; texts returned by the completion provider are drawn   *)
(* from a small set of tokens; a label is the pair <<text, argument>>.     *)
(*                                                                         *)
(* The citation verifier (apps/api/rag/citations.py) is modelled on texts  *)
(* that are sequences of tokens, with scores as exact multiples of 1/Scale *)
(* (no floating-point rounding error).                                     *)
(*                                                                         *)
(* The vector store and the retriever (apps/api/rag/vector_store.py,       *)
(* apps/api/rag/retrievers.py) are modelled for one query: the FAISS index *)
(* ranks the chunks, whose scores are exact multiples of 1/ScoreUnit.      *)
(*                                                                         *)
(* The HTTP endpoints (apps/api/api/workflows.py, assistant.py, ingest.py) *)
(* are modelled for one request each: the record in the in-memory store    *)
(* and the event generator of the request, which advances from one await   *)
(* or yield to the next. The retry loop of the provider clients            *)
(* (apps/api/services) is modelled one pass at a time.                     *)
(***************************************************************************)
EXTENDS Integers, Sequences, FiniteSets, TLC

\* ------------------------------------------------------------------ bounds
MaxDocs == 1          \* passages a retrieval may return
NumAddrs == 2         \* distinct object addresses id() may return

Runs == {1, 2}
Addrs == 1..NumAddrs

None == "None"
RAISE == "RAISE"

\* ------------------------------------------------------------------ router
OpenAIModels == <<"o1", "o3", "gpt-4.1", "gpt-4-turbo">>
AnthropicModels == <<"claude-3.7-sonnet", "claude-3-opus", "claude-3-haiku">>

\* ModelRouter._get_available_models: the dict's keys in insertion order
available_models(keys) ==
    (IF "openai" \in keys THEN OpenAIModels ELSE <<>>)
        \o (IF "anthropic" \in keys THEN AnthropicModels ELSE <<>>)

Range(s) == {s[i] : i \in 1..Len(s)}

DEFAULT_MODELS(capability) ==
    CASE capability = "reasoning" -> "o1"
      [] capability = "generation" -> "gpt-4.1"
      [] capability = "verification" -> "claude-3.7-sonnet"
      [] capability = "long_context" -> "claude-3.7-sonnet"

FALLBACK_MODELS(model) ==
    CASE model = "o1" -> <<"gpt-4.1", "claude-3.7-sonnet">>
      [] model = "gpt-4.1" -> <<"gpt-4-turbo", "claude-3.7-sonnet">>
      [] model = "claude-3.7-sonnet" -> <<"claude-3-opus", "gpt-4.1">>
      [] model = "o3" -> <<"o1", "gpt-4.1">>
      [] model = "claude-3-opus" -> <<"claude-3.7-sonnet", "gpt-4.1">>
      [] OTHER -> <<>>

\* first element of the sequence s that is in the set avail, or RAISE
FirstAvailable(s, avail) ==
    IF \E i \in 1..Len(s) : s[i] \in avail
    THEN s[CHOOSE i \in 1..Len(s) :
               s[i] \in avail /\ \A j \in 1..(i - 1) : s[j] \notin avail]
    ELSE RAISE

get_model_for_capability_late_override(override, keys, capability, context_length) ==
    LET avail == Range(available_models(keys))
        cap == IF context_length > 32000 THEN "long_context" ELSE capability
        primary == DEFAULT_MODELS(cap)
        fb == FirstAvailable(FALLBACK_MODELS(primary), avail)
    IN  IF context_length > 32000 /\ primary \in avail THEN primary
        ELSE IF override # None THEN override
        ELSE IF primary \in avail THEN primary
        ELSE IF fb # RAISE THEN fb
        ELSE FirstAvailable(available_models(keys), avail)

\* ModelRouter.get_model_for_capability: the model name, or RAISE for the
\* ValueError("No models available")
get_model_for_capability(override, keys, capability, context_length) ==
    LET avail == Range(available_models(keys))
        cap == IF context_length > 32000 THEN "long_context" ELSE capability
        primary == DEFAULT_MODELS(cap)
        fb == FirstAvailable(FALLBACK_MODELS(primary), avail)
    IN  IF override # None THEN override
        ELSE IF primary \in avail THEN primary
        ELSE IF fb # RAISE THEN fb
        ELSE FirstAvailable(available_models(keys), avail)

get_planner_model(override, keys) ==
    get_model_for_capability(override, keys, "reasoning", 0)

get_drafter_model(override, keys, context_length) ==
    IF context_length > 32000
    THEN get_model_for_capability(override, keys, "long_context", 0)
    ELSE get_model_for_capability(override, keys, "generation", 0)

get_verifier_model(override, keys) ==
    get_model_for_capability(override, keys, "verification", 0)

\* ModelRouter.set_manual_override: the new value of override_model
set_manual_override(keys, model) ==
    IF model # None /\ model \in Range(available_models(keys))
    THEN model ELSE None

validate_model_availability_any_key(keys) == TRUE

\* ModelRouter.validate_model_availability: the "valid" flag
validate_model_availability(keys) ==
    LET avail == Range(available_models(keys))
        capabilities == {"reasoning", "generation", "verification", "long_context"}
    IN  /\ avail # {}
        /\ \A c \in capabilities :
              \/ DEFAULT_MODELS(c) \in avail
              \/ FirstAvailable(FALLBACK_MODELS(DEFAULT_MODELS(c)), avail) # RAISE

\* ------------------------------------------------------------ state, emit
\* texts a completion provider may return; "" stands for an empty or missing
\* content, "long plan" for a text of more than 32000 characters
\* the jurisdiction of a run: a JurisdictionType, None (the caller passed
\* None), or Absent (a state dict without the key)
Absent == "absent"

PlanTexts == {"plan", "long plan"}
DraftTexts == {"draft"}
VerifyTexts == {"approved", "flagged"}
Responses == {RAISE, ""} \union PlanTexts \union DraftTexts \union VerifyTexts

NoExport == [present |-> FALSE, content |-> None, citations |-> <<>>,
             thinking_states |-> <<>>]
NoOutput == [present |-> FALSE, draft |-> None, thinking_states |-> <<>>]

\* WorkflowState (core/models.py) with the keys the stages add to it; a key
\* that is absent from the dict has the value None (0 for retrieved_context)
initial_state(prompt, jurisdiction, model_override) ==
    [prompt |-> prompt, jurisdiction |-> jurisdiction,
     model_override |-> model_override,
     thinking |-> <<>>, citations |-> <<>>,
     plan |-> None, retrieved_context |-> 0, draft |-> None, error |-> None,
     verification_passed |-> None, final_output |-> NoOutput,
     export_data |-> NoExport]

\* len(str(x)) as far as the drafter's model selection depends on it
TextLen(t) ==
    CASE t = None -> 0
      [] t = "long plan" -> 40000
      [] OTHER -> 100

emit_prepend(state, label) ==
    [state EXCEPT !.thinking = <<label>> \o @]

\* emit: copy the trace, append the label, return a new state
emit(state, label) ==
    [state EXCEPT !.thinking = Append(@, label)]

Returned(state) == [raised |-> FALSE, out |-> state]
Raised(state) == [raised |-> TRUE, out |-> state]

\* --------------------------------------------------------- stage functions
\* router = [override, keys]: the global model_router the stages read
\* inp: what the collaborators of the call answer (see StageInputs)

preflight_no_prompt_check(state, router, inp) ==
    LET s1 == emit(state, <<"Validating workflow inputs", "">>)
    IN  IF ~validate_model_availability(router.keys)
        THEN Returned([s1 EXCEPT !.error = "Model availability issues"])
        ELSE Returned(emit(s1, <<"Preflight validation completed", "">>))

\* the except branch ("Model routing error") is not modelled:
\* validate_model_availability does not raise
preflight(state, router, inp) ==
    LET s1 == emit(state, <<"Validating workflow inputs", "">>)
        s2 == IF s1.jurisdiction = Absent
              THEN [s1 EXCEPT !.jurisdiction = "DIFC"] ELSE s1
    IN  IF s1.prompt = ""
        THEN Returned([s1 EXCEPT !.error = "Missing user prompt"])
        ELSE IF ~validate_model_availability(router.keys)
        THEN Returned([s2 EXCEPT !.error = "Model availability issues"])
        ELSE Returned(emit(s2, <<"Preflight validation completed", "">>))

plan_guard_first(state, router, inp) ==
    LET s1 == emit(state, <<"Creating workflow plan", "">>)
        model == get_planner_model(router.override, router.keys)
        s2 == emit(s1, <<"Using model for planning", model>>)
    IN  IF state.error # None THEN Returned(state)
        ELSE IF model = RAISE
        THEN Returned([s1 EXCEPT !.error = "Planning error"])
        ELSE IF inp.resp = RAISE
        THEN Returned([s2 EXCEPT !.error = "Planning error"])
        ELSE IF inp.resp \notin PlanTexts
        THEN Returned([s2 EXCEPT !.error = "Failed to generate plan"])
        ELSE Returned([emit(s2, <<"Plan generation completed", "">>)
                          EXCEPT !.plan = inp.resp])

plan(state, router, inp) ==
    LET s1 == emit(state, <<"Creating workflow plan", "">>)
        model == get_planner_model(router.override, router.keys)
        s2 == emit(s1, <<"Using model for planning", model>>)
    IN  IF s1.error # None THEN Returned(s1)
        ELSE IF model = RAISE
        THEN Returned([s1 EXCEPT !.error = "Planning error"])
        ELSE IF inp.resp = RAISE
        THEN Returned([s2 EXCEPT !.error = "Planning error"])
        ELSE IF inp.resp \notin PlanTexts
        THEN Returned([s2 EXCEPT !.error = "Failed to generate plan"])
        ELSE Returned([emit(s2, <<"Plan generation completed", "">>)
                          EXCEPT !.plan = inp.resp])

NatStr(n) == CASE n = 0 -> "0" [] n = 1 -> "1" [] n = 2 -> "2" [] OTHER -> "many"

\* inp.resp = RAISE: retrieve_with_citations raises; otherwise it returns
\* inp.docs matches and inp.cites verified citations
retrieve(state, router, inp) ==
    LET s1 == emit(state, <<"Retrieving DIFC sources and context", "">>)
        s2 == emit(s1, <<"Retrieved relevant documents", NatStr(inp.docs)>>)
        s3 == emit(s2, <<"Generated verified citations", NatStr(inp.cites)>>)
    IN  IF s1.error # None THEN Returned(s1)
        ELSE IF inp.resp = RAISE
        THEN Returned([s1 EXCEPT !.error = "Retrieval error"])
        ELSE Returned([s3 EXCEPT !.retrieved_context = inp.docs,
                                 !.citations = [i \in 1..inp.cites |-> i]])

draft_error_drops_citations(state, router, inp) ==
    LET res == [raised |-> FALSE,
                out |-> emit(state, <<"Drafting content with DIFC legal analysis", "">>)]
    IN  IF res.out.error # None THEN res
        ELSE IF inp.resp \in DraftTexts
        THEN Returned([emit(res.out, <<"Draft generation completed", "">>)
                          EXCEPT !.draft = "draft with disclaimer"])
        ELSE Returned([res.out EXCEPT !.error = "Drafting error",
                                      !.citations = <<>>])

draft(state, router, inp) ==
    LET s1 == emit(state, <<"Drafting content with DIFC legal analysis", "">>)
        context_length == TextLen(s1.plan) + 600 * s1.retrieved_context
        model == get_drafter_model(router.override, router.keys, context_length)
        s2 == emit(s1, <<"Using model for drafting", model>>)
    IN  IF s1.error # None THEN Returned(s1)
        ELSE IF model = RAISE
        THEN Returned([s1 EXCEPT !.error = "Drafting error"])
        ELSE IF inp.resp = RAISE
        THEN Returned([s2 EXCEPT !.error = "Drafting error"])
        ELSE IF inp.resp \notin DraftTexts
        THEN Returned([s2 EXCEPT !.error = "Failed to generate draft"])
        ELSE Returned([emit(s2, <<"Draft generation completed", "">>)
                          EXCEPT !.draft = "draft with disclaimer"])

verify_citations(state, router, inp) ==
    LET s1 == emit(state, <<"Verifying citations and content accuracy", "">>)
        model == get_verifier_model(router.override, router.keys)
        s2 == emit(s1, <<"Using model for verification", model>>)
        passed == inp.resp = "approved"
        s3 == IF passed THEN emit(s2, <<"Citation verification passed", "">>)
              ELSE emit(s2, <<"Citation verification flagged issues", "">>)
    IN  IF s1.error # None THEN Returned(s1)
        ELSE IF model = RAISE
        THEN Returned([s1 EXCEPT !.error = "Verification error"])
        ELSE IF inp.resp = RAISE
        THEN Returned([s2 EXCEPT !.error = "Verification error"])
        ELSE IF inp.resp \notin VerifyTexts
        THEN Returned([s2 EXCEPT !.error = "Failed to verify content"])
        ELSE Returned([s3 EXCEPT !.verification_passed =
                                     IF passed THEN "True" ELSE "False"])

\* the three router lookups of human_review and export are outside any try
ModelInfoRaises(router) ==
    \/ get_planner_model(router.override, router.keys) = RAISE
    \/ get_drafter_model(router.override, router.keys, 0) = RAISE
    \/ get_verifier_model(router.override, router.keys) = RAISE

human_review(state, router, inp) ==
    LET s1 == emit(state, <<"Preparing content for review", "">>)
        final_output == [present |-> TRUE, draft |-> s1.draft,
                         thinking_states |-> s1.thinking]
        s2 == emit(s1, <<"Content prepared for human review", "">>)
    IN  IF ModelInfoRaises(router) THEN Raised(state)
        ELSE Returned([s2 EXCEPT !.final_output = final_output])

export(state, router, inp) ==
    LET s1 == emit(state, <<"Exporting final content", "">>)
        export_data == [present |-> TRUE, content |-> s1.draft,
                        citations |-> s1.citations,
                        thinking_states |-> s1.thinking]
        s2 == emit(s1, <<"Export completed", "">>)
    IN  IF s1.error # None THEN Returned(s1)
        ELSE IF ModelInfoRaises(router) THEN Raised(state)
        ELSE Returned([s2 EXCEPT !.export_data = export_data])

NodeNames == <<"preflight", "plan", "retrieve", "draft", "verify_citations",
               "human_review", "export">>
Nodes == Range(NodeNames)

NODE_REGISTRY(node, state, router, inp) ==
    CASE node = "preflight" -> preflight(state, router, inp)
      [] node = "plan" -> plan(state, router, inp)
      [] node = "retrieve" -> retrieve(state, router, inp)
      [] node = "draft" -> draft(state, router, inp)
      [] node = "verify_citations" -> verify_citations(state, router, inp)
      [] node = "human_review" -> human_review(state, router, inp)
      [] node = "export" -> export(state, router, inp)

\* ------------------------------------------------- objects of a stage call
\* The dicts and lists a stage call touches, as objects: a heap holds the
\* state dicts and the trace lists, a dict refers to its trace list by the
\* list's index, and the caller's state is dict 1 with trace list 1.
new_heap(state) ==
    [dicts |-> <<[thinking_ref |-> 1,
                  fields |-> [state EXCEPT !.thinking = <<>>]]>>,
     lists |-> <<state.thinking>>]

\* the value of the state a dict object holds
deref(heap, d) ==
    [heap.dicts[d].fields EXCEPT
        !.thinking = heap.lists[heap.dicts[d].thinking_ref]]

emit_object_in_place(heap, d, label) ==
    [heap |-> [heap EXCEPT !.lists[heap.dicts[d].thinking_ref] =
                               Append(@, label)],
     ref |-> d]

\* emit on objects: thinking.copy() is a new list, the label is appended to
\* the copy, and {**state, "thinking": thinking_updated} is a new dict
emit_object(heap, d, label) ==
    LET thinking == heap.lists[heap.dicts[d].thinking_ref]
        thinking_updated == Len(heap.lists) + 1
    IN  [heap |-> [dicts |-> Append(heap.dicts,
                                    [heap.dicts[d] EXCEPT
                                        !.thinking_ref = thinking_updated]),
                   lists |-> Append(heap.lists, Append(thinking, label))],
         ref |-> Len(heap.dicts) + 1]

RECURSIVE emit_all(_, _, _)
emit_all(heap, d, labels) ==
    IF labels = <<>> THEN [heap |-> heap, ref |-> d]
    ELSE LET e == emit_object(heap, d, Head(labels))
         IN  emit_all(e.heap, e.ref, Tail(labels))

\* a stage function on objects: every stage is a chain of
\* state = emit(state, ...) calls, each on the dict the previous one
\* returned, followed by return state or return {**state, key: value, ...},
\* a new dict that shares the trace list of the last emit
stage_object(node, heap, d, router, inp) ==
    LET input == deref(heap, d)
        res == NODE_REGISTRY(node, input, router, inp)
        labels == SubSeq(res.out.thinking, Len(input.thinking) + 1,
                         Len(res.out.thinking))
        e == emit_all(heap, d, labels)
        returned == [thinking_ref |-> e.heap.dicts[e.ref].thinking_ref,
                     fields |-> [res.out EXCEPT !.thinking = <<>>]]
    IN  IF res.raised \/ returned = e.heap.dicts[e.ref]
        THEN [heap |-> e.heap, ref |-> e.ref, raised |-> res.raised]
        ELSE [heap |-> [e.heap EXCEPT !.dicts = Append(@, returned)],
              ref |-> Len(e.heap.dicts) + 1, raised |-> FALSE]

\* ------------------------------------------------------------------ graph
END == "__end__"

Edges_draft_to_review ==
    {<<"preflight", "plan">>, <<"plan", "retrieve">>, <<"retrieve", "draft">>,
     <<"draft", "human_review">>, <<"verify_citations", "human_review">>,
     <<"human_review", "export">>, <<"export", END>>}

\* _build_graph: the edges added with add_edge
Edges == {<<"preflight", "plan">>, <<"plan", "retrieve">>,
          <<"retrieve", "draft">>, <<"draft", "verify_citations">>,
          <<"verify_citations", "human_review">>,
          <<"human_review", "export">>, <<"export", END>>}

\* _build_graph: the path map of each add_conditional_edges call
ConditionalEdges(node, choice) ==
    CASE choice = "end" -> END
      [] node = "preflight" -> "plan"
      [] node = "plan" -> "retrieve"
      [] node = "retrieve" -> "draft"
      [] node = "draft" -> "verify_citations"

ConditionalSources == {"preflight", "plan", "retrieve", "draft"}

should_continue(state) == IF state.error # None THEN "end" ELSE "continue"

\* the nodes the compiled graph schedules after node has returned state:
\* every add_edge target, and the target the condition selects
NextNodes(node, state) ==
    ({e[2] : e \in {d \in Edges : d[1] = node}}
       \union (IF node \in ConditionalSources
               THEN {ConditionalEdges(node, should_continue(state))}
               ELSE {})) \ {END}

\* the compiled graph keeps the keys the WorkflowState schema declares
apply_writes(out) ==
    [out EXCEPT !.verification_passed = None, !.final_output = NoOutput,
                !.export_data = NoExport]

\* starting a run on a thread: the saved channel values, overwritten by the
\* keys of the input (prompt, jurisdiction, model_override, thinking,
\* citations)
load_checkpoint(saved, input) ==
    IF saved.present
    THEN [saved.values EXCEPT !.prompt = input.prompt,
                              !.jurisdiction = input.jurisdiction,
                              !.model_override = input.model_override,
                              !.thinking = input.thinking,
                              !.citations = input.citations]
    ELSE input

WorkflowThread == <<"qaai_workflow", 0>>
StreamThread(a) == <<"qaai_stream", a>>
Threads == {WorkflowThread} \union {StreamThread(a) : a \in Addrs}

\* ------------------------------------------------------------- stream_run
NoLabel == <<"", "">>
Event(type, node, label, citation) ==
    [type |-> type, node |-> node, label |-> label, citation |-> citation]

Last(s) == s[Len(s)]

thinking_events_all(node_name, thinking_states) ==
    [i \in 1..Len(thinking_states) |->
        Event("thinking_state", node_name, thinking_states[i], 0)]

\* graph.py 234-243: thinking_states[-1:]
thinking_events(node_name, thinking_states) ==
    IF thinking_states # <<>>
    THEN <<Event("thinking_state", node_name, Last(thinking_states), 0)>>
    ELSE <<>>

stream_returns_never(node_output) == FALSE

\* graph.py 263-269: the return after the error event
stream_returns(node_output) == node_output.error # None

\* the events stream_run yields for one update of astream
stream_events(node_name, node_output) ==
    thinking_events(node_name, node_output.thinking)
    \o (IF node_name = "draft" /\ node_output.draft # None
        THEN <<Event("draft_progress", node_name, NoLabel, 0)>> ELSE <<>>)
    \o [i \in 1..Len(node_output.citations) |->
            Event("citation", "", NoLabel, node_output.citations[i])]
    \o (IF node_output.error # None
        THEN <<Event("error", node_name, <<node_output.error, "">>, 0)>>
        ELSE <<>>)

exception_events_none == <<>>

\* graph.py 277-282
exception_events ==
    <<Event("error", "workflow", <<"Workflow streaming error", "">>, 0)>>

done_events == <<Event("done", "", NoLabel, 0)>>

\* ------------------------------------------------------------------- run
NoResult == [returned |-> FALSE, success |-> FALSE, error |-> None,
             thinking_states |-> <<>>, citations |-> <<>>,
             export_data |-> NoExport]

\* graph.py 162-174
run_result(result) ==
    [returned |-> TRUE, success |-> TRUE, error |-> result.error,
     thinking_states |-> result.thinking, citations |-> result.citations,
     export_data |-> result.export_data]

\* graph.py 176-189
NoModelsError ==
    "Workflow execution error: No models available - check API key configuration"
RuntimeError == "Workflow execution error: graph runtime fault"

\* graph.py 176-189; e is the exception ainvoke raised: the ValueError of
\* the router when a stage raised, a fault of the graph runtime otherwise
run_exception(e) ==
    [returned |-> TRUE, success |-> FALSE,
     error |-> IF e = "ValueError" THEN NoModelsError ELSE RuntimeError,
     thinking_states |-> <<>>, citations |-> <<>>, export_data |-> NoExport]

\* --------------------------------------------- citations (rag/citations.py)
\* A text is the sequence of its whitespace-separated tokens, taken from a
\* small vocabulary. Scores are exact multiples of 1/Scale (Scale is a
\* multiple of 10 and of every word-set size the texts below can give).
Scale == 8400
MaxCandidates == 2    \* candidates of one verification
MaxCached == 1        \* entries the verification cache may hold

\* str.lower() of a token
Lower(tok) ==
    CASE tok = "Employment" -> "employment"
      [] tok = "Law" -> "law"
      [] tok = "Law," -> "law,"
      [] tok = "Part" -> "part"
      [] tok = "Leave" -> "leave"
      [] tok = "Contracts" -> "contracts"
      [] OTHER -> tok

\* the words left of a lower-case token once every character outside
\* [a-z0-9] has been replaced by a space
Words(tok) ==
    CASE tok = "law," -> <<"law">>
      [] tok = "--" -> <<>>
      [] OTHER -> <<tok>>

RECURSIVE normalize_text(_)
normalize_text(text) ==
    IF text = <<>> THEN <<>>
    ELSE Words(Lower(Head(text))) \o normalize_text(Tail(text))

set_similarity_of_first(set1, set2) ==
    IF set1 = {} \/ set2 = {} THEN 0
    ELSE (Cardinality(set1 \intersect set2) * Scale) \div Cardinality(set1)

\* len(set1 & set2) / len(set1 | set2), 0.0 when a set is empty
set_similarity(set1, set2) ==
    IF set1 = {} \/ set2 = {} THEN 0
    ELSE (Cardinality(set1 \intersect set2) * Scale)
             \div Cardinality(set1 \union set2)

jaccard_similarity(text1, text2) ==
    set_similarity(Range(normalize_text(text1)), Range(normalize_text(text2)))

SectionWords == {"article", "section", "part", "chapter", "clause",
                 "paragraph", "subsection"}
NumberTokens == {"9", "10"}
LegalWords == {"law", "regulation", "rule", "act", "code", "statute",
               "ordinance", "difc", "dfsa", "uae", "dubai", "emirates",
               "employment", "commercial", "corporate", "financial",
               "shall", "must", "may", "required", "prohibited", "permitted"}

\* re.findall returns the group of each match: the keyword alone for
\* "part 9", and the punctuation of the lower-case text delimits words
extract_legal_terms(text) ==
    {Lower(text[i]) : i \in {j \in 1..(Len(text) - 1) :
                                /\ Lower(text[j]) \in SectionWords
                                /\ text[j + 1] \in NumberTokens}}
    \union {w \in UNION {Range(Words(Lower(text[i]))) : i \in 1..Len(text)} :
               w \in LegalWords}
    \union (IF \E i \in 1..(Len(text) - 1) :
                  Lower(text[i]) = "data" /\ Lower(text[i + 1]) = "protection"
            THEN {"data protection"} ELSE {})

MaxOf(S) == CHOOSE x \in S : \A y \in S : x >= y
Min(a, b) == IF a <= b THEN a ELSE b

\* len(claim_terms & candidate_terms) / len(claim_terms | candidate_terms),
\* 0.0 when both are empty
term_overlap(claim_terms, candidate_terms) ==
    IF claim_terms \union candidate_terms = {} THEN 0
    ELSE (Cardinality(claim_terms \intersect candidate_terms) * Scale)
             \div Cardinality(claim_terms \union candidate_terms)

\* base_score * 0.7 + term_overlap * 0.3, capped at 1.0
weighted_score(base_score, overlap) ==
    Min((base_score * 7 + overlap * 3) \div 10, Scale)

\* CitationCandidate: title, section (<<>> for None or ""), jurisdiction
enhanced_similarity(claim, candidate) ==
    IF claim = <<>> \/ candidate.title = <<>> THEN 0
    ELSE weighted_score(
             MaxOf({jaccard_similarity(claim, candidate.title),
                    IF candidate.section # <<>>
                    THEN jaccard_similarity(claim, candidate.section)
                    ELSE 0,
                    jaccard_similarity(claim,
                                       candidate.title \o candidate.section)}),
             term_overlap(extract_legal_terms(claim),
                          extract_legal_terms(candidate.title
                                                  \o candidate.section)))

\* round(score, 3), in thousandths
Round3(score) == (2000 * score + Scale) \div (2 * Scale)

\* list.sort(key=score, reverse=True): stable, the first of equal scores stays
\* first
RECURSIVE SortDescending(_)
SortDescending(scored) ==
    IF scored = <<>> THEN <<>>
    ELSE LET x == scored[Len(scored)]
             rest == SortDescending(SubSeq(scored, 1, Len(scored) - 1))
             Before(y) == y.score >= x.score
             After(y) == y.score < x.score
         IN  SelectSeq(rest, Before) \o <<x>> \o SelectSeq(rest, After)

NoCandidate == [title |-> <<>>, section |-> <<>>, jurisdiction |-> None]
DefaultThreshold == Scale \div 4
DefaultBoost == Scale \div 10

\* the VerificationResult verify_citation builds from the sorted
\* (candidate, score) pairs
ranked_result(scored_candidates, threshold) ==
    [passed |-> scored_candidates[1].score >= threshold,
     score |-> Round3(scored_candidates[1].score),
     best_candidate |-> scored_candidates[1].candidate,
     all_scores |-> [i \in 1..Len(scored_candidates) |->
                        [candidate |-> scored_candidates[i].candidate,
                         score |-> Round3(scored_candidates[i].score)]]]

verify_citation_uncapped(claim, candidates, threshold, jurisdiction_boost) ==
    IF claim = <<>> \/ candidates = <<>>
    THEN [passed |-> FALSE, score |-> 0, best_candidate |-> NoCandidate,
          all_scores |-> <<>>]
    ELSE LET final_score(candidate) ==
                 enhanced_similarity(claim, candidate)
                     + (IF candidate.jurisdiction = "DIFC"
                        THEN jurisdiction_boost ELSE 0)
         IN  ranked_result(
                 SortDescending([i \in 1..Len(candidates) |->
                     [candidate |-> candidates[i],
                      score |-> final_score(candidates[i])]]),
                 threshold)

verify_citation(claim, candidates, threshold, jurisdiction_boost) ==
    IF claim = <<>> \/ candidates = <<>>
    THEN [passed |-> FALSE, score |-> 0, best_candidate |-> NoCandidate,
          all_scores |-> <<>>]
    ELSE LET final_score(candidate) ==
                 Min(enhanced_similarity(claim, candidate)
                         + (IF candidate.jurisdiction = "DIFC"
                            THEN jurisdiction_boost ELSE 0),
                     Scale)
         IN  ranked_result(
                 SortDescending([i \in 1..Len(candidates) |->
                     [candidate |-> candidates[i],
                      score |-> final_score(candidates[i])]]),
                 threshold)

batch_verify_citations(claims, candidates, threshold) ==
    [i \in 1..Len(claims) |->
        verify_citation(claims[i], candidates, threshold, DefaultBoost)]

NoCitation == [present |-> FALSE, title |-> <<>>, section |-> <<>>,
               jurisdiction |-> None]

create_verified_citation_unchecked(claim, verification_result) ==
    IF verification_result.best_candidate = NoCandidate THEN NoCitation
    ELSE [present |-> TRUE,
          title |-> verification_result.best_candidate.title,
          section |-> verification_result.best_candidate.section,
          jurisdiction |-> verification_result.best_candidate.jurisdiction]

\* None (NoCitation) unless the result passed and has a best candidate
create_verified_citation(claim, verification_result) ==
    IF ~verification_result.passed
          \/ verification_result.best_candidate = NoCandidate
    THEN NoCitation
    ELSE [present |-> TRUE,
          title |-> verification_result.best_candidate.title,
          section |-> verification_result.best_candidate.section,
          jurisdiction |-> verification_result.best_candidate.jurisdiction]

\* CitationVerifier.verify: the key is built from hash(claim) and the hash
\* of the tuple of the candidates' titles (hash is taken as injective)
cache_key(claim, candidates) ==
    <<claim, [i \in 1..Len(candidates) |-> candidates[i].title]>>

\* CitationVerifier.verify on the cache (a set of [key, result] entries);
\* the verifier's threshold is that of the global citation_verifier
verify(cache, claim, candidates, use_cache) ==
    LET key == cache_key(claim, candidates)
        result == verify_citation(claim, candidates, DefaultThreshold,
                                  DefaultBoost)
    IN  IF use_cache /\ \E e \in cache : e.key = key
        THEN [result |-> (CHOOSE e \in cache : e.key = key).result,
              cache |-> cache]
        ELSE [result |-> result,
              cache |-> IF use_cache
                        THEN {e \in cache : e.key # key}
                                 \union {[key |-> key, result |-> result]}
                        ELSE cache]

verify_batch(claims, candidates) ==
    batch_verify_citations(claims, candidates, DefaultThreshold)

\* the citations that are not None, in order
Present(citations) ==
    LET IsCitation(c) == c.present
    IN  SelectSeq(citations, IsCitation)

filter_valid_citations(claims, candidates) ==
    LET results == verify_batch(claims, candidates)
    IN  Present([i \in 1..Len(claims) |->
                    create_verified_citation(claims[i], results[i])])

\* the citation part of DIFCRetriever.retrieve_with_citations: candidates
\* are the candidates built from the matches
retrieve_with_citations(query, candidates) ==
    IF candidates = <<>> THEN <<>>
    ELSE LET verification_results ==
                 verify_batch([i \in 1..Len(candidates) |-> query], candidates)
         IN  Present([i \in 1..Len(candidates) |->
                         IF verification_results[i].passed
                         THEN create_verified_citation(query,
                                                       verification_results[i])
                         ELSE NoCitation])

\* ------------------------------------------------------------- retrieval
\* VectorStore for one query. The FAISS index ranks the vectors 1..MaxChunks
\* by inner product with the query (vector i is chunk i of
\* _metadata["vectors"]); store[i] is what _chunks holds for chunk i.
\* Retrieval scores are in units of 1/ScoreUnit.
ScoreUnit == 10000
MaxChunks == 3        \* vectors of the index

\* the inner product FAISS reports for a vector, non-increasing in the rank
nearest_neighbour_score(id) ==
    CASE id = 1 -> 9000
      [] id = 2 -> 5000
      [] id = 3 -> 3000
      [] OTHER -> 2000

\* overlap / len(query_terms) of a chunk's content in _keyword_search
keyword_overlap(id) ==
    CASE id = 1 -> 2000
      [] id = 2 -> 9500
      [] id = 3 -> 5000
      [] OTHER -> 0

\* metadata["title"] of a chunk that has metadata
chunk_title(id) ==
    IF id = 2 THEN <<"Contracts", "Law">> ELSE <<"Employment", "Law">>

\* _chunks.get(chunk_id): nothing, the dict _load_metadata stores for every
\* vector, or a DocumentChunk with metadata None or a metadata dict in which
\* the jurisdiction or instrument_type key may be absent
NoChunk == [kind |-> "none", metadata |-> FALSE, jurisdiction |-> Absent,
            instrument_type |-> Absent]
StubChunk == [kind |-> "dict", metadata |-> FALSE, jurisdiction |-> Absent,
              instrument_type |-> Absent]
DocumentChunk(metadata, jurisdiction, instrument_type) ==
    [kind |-> "DocumentChunk", metadata |-> metadata,
     jurisdiction |-> jurisdiction, instrument_type |-> instrument_type]
ChunkVariants ==
    {NoChunk, StubChunk, DocumentChunk(FALSE, Absent, Absent),
     DocumentChunk(TRUE, "DIFC", "Law"), DocumentChunk(TRUE, "UAE", "Law"),
     DocumentChunk(TRUE, Absent, "Law"), DocumentChunk(TRUE, "UAE", Absent)}

Take(seq, n) == SubSeq(seq, 1, Min(n, Len(seq)))

\* VectorStore.search: the matches [chunk, score], [] when anything raises
search(store, limit, jurisdiction, boost_difc) ==
    LET search_limit == Min(limit * 3, Len(store))
        Raises(id) ==
            store[id].kind = "dict" /\ (jurisdiction # None \/ boost_difc)
        Kept(id) ==
            /\ store[id].kind # "none"
            /\ (jurisdiction # None /\ store[id].metadata)
                   => store[id].jurisdiction = jurisdiction
        adjusted_score(id) ==
            IF boost_difc /\ store[id].metadata
                  /\ store[id].jurisdiction = "DIFC"
            THEN (nearest_neighbour_score(id) * 12) \div 10
            ELSE nearest_neighbour_score(id)
        hits == [i \in 1..search_limit |-> i]
        results == [i \in 1..Len(SelectSeq(hits, Kept)) |->
                       [chunk |-> SelectSeq(hits, Kept)[i],
                        score |-> adjusted_score(SelectSeq(hits, Kept)[i])]]
    IN  IF \E id \in 1..search_limit : Raises(id) THEN <<>>
        ELSE Take(SortDescending(results), limit)

\* VectorStore._keyword_search over _chunks.values(), in insertion order
keyword_search(store, limit) ==
    LET Scored(id) ==
            store[id].kind = "DocumentChunk" /\ keyword_overlap(id) > 0
        ids == SelectSeq([i \in 1..Len(store) |-> i], Scored)
    IN  Take(SortDescending([i \in 1..Len(ids) |->
                                [chunk |-> ids[i],
                                 score |-> keyword_overlap(ids[i])]]),
             limit)

\* the matches of a ranking as its set of chunk ids, and a chunk's score in
\* a ranking (0.0 when the ranking does not hold it)
ChunkIds(matches) == {matches[i].chunk : i \in 1..Len(matches)}
ScoreIn(matches, id) ==
    IF id \in ChunkIds(matches)
    THEN (CHOOSE m \in Range(matches) : m.chunk = id).score
    ELSE 0

\* the rankings hybrid_search fuses; weights are in tenths
hybrid_vector_results(store, limit) == search(store, limit * 2, None, TRUE)

hybrid_search_untruncated(store, limit, vector_weight, keyword_weight) ==
    LET vector_results == hybrid_vector_results(store, limit)
        keyword_results == keyword_search(store, limit * 2)
        NewId(m) == m.chunk \notin ChunkIds(vector_results)
        combined == vector_results \o SelectSeq(keyword_results, NewId)
    IN  SortDescending(
            [i \in 1..Len(combined) |->
                [chunk |-> combined[i].chunk,
                 score |->
                     (ScoreIn(vector_results, combined[i].chunk)
                          * vector_weight
                      + ScoreIn(keyword_results, combined[i].chunk)
                          * keyword_weight) \div 10]])

hybrid_search_concatenated(store, limit, vector_weight, keyword_weight) ==
    LET vector_results == hybrid_vector_results(store, limit)
        keyword_results == keyword_search(store, limit * 2)
    IN  Take(SortDescending(
                 [i \in 1..Len(vector_results) |->
                     [chunk |-> vector_results[i].chunk,
                      score |-> (vector_results[i].score * vector_weight)
                                    \div 10]]
                 \o [i \in 1..Len(keyword_results) |->
                        [chunk |-> keyword_results[i].chunk,
                         score |-> (keyword_results[i].score * keyword_weight)
                                       \div 10]]),
             limit)

hybrid_search(store, limit, vector_weight, keyword_weight) ==
    LET vector_results == hybrid_vector_results(store, limit)
        keyword_results == keyword_search(store, limit * 2)
        NewId(m) == m.chunk \notin ChunkIds(vector_results)
        combined == vector_results \o SelectSeq(keyword_results, NewId)
    IN  Take(SortDescending(
                 [i \in 1..Len(combined) |->
                     [chunk |-> combined[i].chunk,
                      score |->
                          (ScoreIn(vector_results, combined[i].chunk)
                               * vector_weight
                           + ScoreIn(keyword_results, combined[i].chunk)
                               * keyword_weight) \div 10]]),
             limit)

\* RetrievalContext: jurisdiction, max_results, boost_difc, hybrid_search
\* (include_citations is left at its default True)
RetrievalContexts ==
    [jurisdiction : {"DIFC", "UAE"}, max_results : 1..2,
     boost_difc : BOOLEAN, hybrid_search : {FALSE}]
        \union [jurisdiction : {"DIFC"}, max_results : 1..2,
                boost_difc : {TRUE}, hybrid_search : {TRUE}]

\* the matches retrieve_with_citations gets from the vector store
retrieve_matches(store, context) ==
    IF context.hybrid_search
    THEN hybrid_search(store, context.max_results, 7, 3)
    ELSE search(store, context.max_results, context.jurisdiction,
                context.boost_difc)

\* what building the CitationCandidate of a match raises: AttributeError for
\* match.chunk.metadata of a dict, ValueError for InstrumentType("OTHER")
\* (the value of InstrumentType.OTHER is "Other")
candidate_error(chunk) ==
    IF chunk.kind = "dict" THEN "AttributeError"
    ELSE IF chunk.metadata /\ chunk.instrument_type = Absent
         THEN "ValueError"
         ELSE None

\* the CitationCandidate of a match whose chunk has metadata
citation_candidate(store, match) ==
    [title |-> chunk_title(match.chunk), section |-> <<>>,
     jurisdiction |-> IF store[match.chunk].jurisdiction = Absent
                      THEN "OTHER"
                      ELSE store[match.chunk].jurisdiction]

\* DIFCRetriever.retrieve_with_citations(context) on the store: what it
\* raises (None when it returns), the matches and the citations it returns,
\* and the candidates it has verified
retrieve_from_store(store, query, context) ==
    LET matches == retrieve_matches(store, context)
        Failing(m) == candidate_error(store[m.chunk]) # None
        HasMetadata(m) == store[m.chunk].metadata
        with_metadata == SelectSeq(matches, HasMetadata)
        candidates == [i \in 1..Len(with_metadata) |->
                          citation_candidate(store, with_metadata[i])]
    IN  IF SelectSeq(matches, Failing) # <<>>
        THEN [error |-> candidate_error(
                            store[SelectSeq(matches, Failing)[1].chunk]),
              matches |-> <<>>, candidates |-> <<>>, citations |-> <<>>]
        ELSE [error |-> None, matches |-> matches, candidates |-> candidates,
              citations |-> retrieve_with_citations(query, candidates)]

\* ------------------------------------------------------ api/workflows.py
\* the form fields of a workflow request; "XX" is a jurisdiction string that
\* is no JurisdictionType value
NoRequest == [prompt |-> "", jurisdiction |-> "DIFC", model_override |-> None]

\* JurisdictionType(value): ValueError unless value is one of the enum's
valid_jurisdiction(value) == value \in {"DIFC", "DFSA", "UAE", "OTHER"}

\* graph.py 162-164: "output": result.get("export_data", result); the graph
\* keeps no export_data key, so the output of a run that returned is its
\* final state; graph.py 177-179: None when ainvoke raised
NoOutputData ==
    [present |-> FALSE, draft |-> None, citations |-> <<>>, error |-> None]

run_output(res, state) ==
    IF res.success
    THEN [present |-> TRUE, draft |-> state.draft,
          citations |-> state.citations, error |-> state.error]
    ELSE NoOutputData

\* core/models.py 167-177
WorkflowRun(status, input_data) ==
    [present |-> TRUE, status |-> status, input_data |-> input_data,
     output_data |-> NoOutputData, thinking_states |-> <<>>,
     error_message |-> None]

NoWorkflowRun == [WorkflowRun("pending", NoRequest) EXCEPT !.present = FALSE]

\* the payload of the workflow_complete event
NoComplete ==
    [present |-> FALSE, success |-> FALSE, output |-> NoOutputData,
     citations |-> <<>>]

\* pc: "none" (no request), "created" (the generator is handed to the
\* response), "streaming", "closed" (the generator returned), "abandoned"
\* (the generator was closed by its consumer); for the synchronous handler
\* "sync" (awaiting run) and "responded" or "raised" (HTTP 500);
\* forwarded: how many events of stream_run the async for has handled;
\* sse: the types of the events sent to the client
NoWorkflowStream ==
    [pc |-> "none", input_data |-> NoRequest, forwarded |-> 0, sse |-> <<>>,
     complete |-> NoComplete]

\* workflows.py 139-142: the record after run() returned
completed_record(record, res, state) ==
    [record EXCEPT !.status = "completed",
                   !.output_data = run_output(res, state)]

\* workflows.py 271-289: the record the synchronous endpoint creates
sync_record(input_data, res, state) ==
    [WorkflowRun(IF res.success THEN "completed" ELSE "failed", input_data)
        EXCEPT !.output_data = run_output(res, state),
               !.thinking_states = res.thinking_states,
               !.error_message = res.error]

\* workflows.py 70-126: what the async for does with one event of
\* stream_run: the type of the event sent on, "" when no branch matches
forwarded_type(event) ==
    CASE event.type = "thinking_state" -> "thinking_state"
      [] event.type = "draft_progress" -> "progress"
      [] event.type = "citation" -> "citation"
      [] event.type = "error" -> "error"
      [] OTHER -> ""

\* ------------------------------------- SimpleAssistantGraph, api/assistant.py
\* graph.py 347-356: the one node of the simple graph, retrieve then draft
simple_assistant(state, router, inp_retrieve, inp_draft) ==
    LET retrieval_state == retrieve(state, router, inp_retrieve).out
    IN  IF retrieval_state.error # None THEN retrieval_state
        ELSE draft(retrieval_state, router, inp_draft).out

\* graph.py 370-403 (SimpleAssistantGraph.run); fault: ainvoke raises;
\* state_error: the error of the final state of the pipeline, None when the
\* graph raised
simple_assistant_run(prompt, jurisdiction, router, inp_retrieve, inp_draft, fault) ==
    LET result == simple_assistant(initial_state(prompt, jurisdiction, None),
                                   router, inp_retrieve, inp_draft)
    IN  IF fault
        THEN [success |-> FALSE, content |-> "", citations |-> <<>>,
              error |-> "Assistant error", thinking_states |-> <<>>,
              state_error |-> None]
        ELSE [success |-> TRUE,
              content |-> IF result.draft = None THEN "" ELSE result.draft,
              citations |-> result.citations, error |-> result.error,
              thinking_states |-> result.thinking,
              state_error |-> result.error]

\* len(text.split()) of the texts an assistant stream chunks
WordCount(text) ==
    CASE text = "" -> 0
      [] text = "draft with disclaimer" -> 3
      [] text = "draft with disclaimer..." -> 3
      [] text = "No response generated" -> 3
      [] OTHER -> 1

\* assistant.py 218-227 (_chunk_text): the number of chunks
chunk_text(text, chunk_size) ==
    (WordCount(text) + chunk_size - 1) \div chunk_size

Repeat(x, n) == [i \in 1..n |-> x]

\* assistant.py 178-197: the events after simple_assistant.run returned,
\* up to the return or the end of the branch
assist_result_events(result) ==
    IF ~result.success THEN <<"error">>
    ELSE Repeat("chunk",
                chunk_text(IF result.content # "" THEN result.content
                           ELSE "No response generated", 100))

\* assistant.py 73-111: the events for one event of stream_run
draft_mode_events(event) ==
    CASE event.type = "thinking_state" -> <<"thinking_state">>
      [] event.type = "draft_progress" ->
            Repeat("chunk", chunk_text("draft with disclaimer...", 50))
      [] event.type = "citation" -> <<"citation">>
      [] event.type = "error" -> <<"error">>
      [] OTHER -> <<>>

\* pc: "none", "assist" (the assist branch before the retrieval),
\* "retrieved" (before simple_assistant.run), "draft" (the async for over
\* stream_run), "closed"; sse: the types of the events sent to the client;
\* state_error: the error of the pipeline state of the assist branch
NoAssistantStream ==
    [pc |-> "none", prompt |-> "", forwarded |-> 0, sse |-> <<>>,
     ran |-> FALSE, state_error |-> None]

\* ----------------------------------------------------------- api/ingest.py
\* what the collaborators do with one file: storage.store_upload raises;
\* the extracted content is empty; embed_texts raises; or all of them work
FileOutcomes == {"store_error", "no_content", "embed_error", "stored"}

\* rag/embeddings.py defines no EmbeddingChunk (ingest.py 150 imports it)
\* and FAISSVectorStore no add_chunks_with_embeddings (ingest.py 203)
EmbeddingChunkDefined == FALSE
add_chunks_with_embeddings_defined == FALSE

\* ingest.py 80-247: how the body of the file loop ends for one file:
\* None (the file is processed) or the entry added to errors
file_error(outcome) ==
    IF outcome = "store_error" THEN "Error processing file: store_upload"
    ELSE IF outcome = "no_content" THEN "No text content extracted"
    ELSE IF ~EmbeddingChunkDefined THEN "Error processing file: ImportError"
    ELSE IF outcome = "embed_error" THEN "Error processing file: embed_texts"
    ELSE IF ~add_chunks_with_embeddings_defined
    THEN "Error processing file: AttributeError"
    ELSE None

\* the locals of stream_ingestion_progress after one more file
process_file_drops_empty(loop, outcome) ==
    LET error == file_error(outcome)
    IN  IF outcome = "no_content" THEN [loop EXCEPT !.i = @ + 1]
        ELSE IF error # None
        THEN [loop EXCEPT !.i = @ + 1, !.errors = Append(@, error)]
        ELSE [loop EXCEPT !.i = @ + 1, !.processed_count = @ + 1,
                          !.document_ids = Append(@, loop.i)]

process_file(loop, outcome) ==
    LET error == file_error(outcome)
    IN  IF error # None
        THEN [loop EXCEPT !.i = @ + 1, !.errors = Append(@, error)]
        ELSE [loop EXCEPT !.i = @ + 1, !.processed_count = @ + 1,
                          !.document_ids = Append(@, loop.i)]

\* core/models.py 226-240, as ingest_documents_batch creates it
IngestionJob(file_count) ==
    [present |-> TRUE, status |-> "pending", file_count |-> file_count,
     processed_count |-> 0, error_count |-> 0, document_ids |-> <<>>,
     errors |-> <<>>]

NoIngestionJob == [IngestionJob(1) EXCEPT !.present = FALSE]

\* ingest.py 249-256: the job after the file loop
finished_job(job, loop) ==
    [job EXCEPT !.status = IF loop.errors = <<>> THEN "completed"
                           ELSE "failed",
                !.processed_count = loop.processed_count,
                !.error_count = Len(loop.errors),
                !.document_ids = loop.document_ids,
                !.errors = loop.errors]

JobCancelled == "Job cancelled by user"

\* ingest.py 587-613 (cancel_ingestion_job) on a job that exists
cancel_ingestion_job(job) ==
    IF job.status = "processing"
    THEN [job EXCEPT !.status = "failed", !.errors = Append(@, JobCancelled)]
    ELSE NoIngestionJob

\* pc: "none", "created", "processing" (in the file loop), "closed"; i: the
\* files handled so far; the locals processed_count, errors, document_ids
NoIngestionStream ==
    [pc |-> "none", file_count |-> 0, i |-> 0, processed_count |-> 0,
     errors |-> <<>>, document_ids |-> <<>>]

\* ------------------------- services/openai_client.py, anthropic_client.py
\* what request_func does in one attempt: kind "response", "bad_response"
\* (a response _format_response raises on) or "exception" with the
\* status_code of the exception, 0 for an exception without one
RequestOutcomes ==
    {[kind |-> "response", status |-> 200],
     [kind |-> "bad_response", status |-> 200]}
        \union [kind : {"exception"}, status : {0, 400, 408, 429, 500}]

NoException == [present |-> FALSE, status |-> 0]

\* the except branch after the check of the last attempt: TRUE when the
\* loop is left (openai_client.py 113-127, anthropic_client.py 171-186)
breaks_never(client, status) == FALSE

breaks(client, status) ==
    IF status = 0 \/ status = 429 \/ status >= 500 THEN FALSE
    ELSE IF client = "openai" THEN status >= 400 /\ status < 500
    ELSE status >= 400 /\ status < 500 /\ status \notin {408, 429}

\* attempt: the loop variable; calls: how often request_func was invoked;
\* outcome: "pending", "returned" or "raised"; response: the call returned
\* the formatted response of request_func; last_status: the status of the
\* exception the last invocation raised, -1 when it raised none
NoProviderCall ==
    [client |-> "none", max_retries |-> 0, attempt |-> 0, calls |-> 0,
     last_exception |-> NoException, outcome |-> "none", response |-> FALSE,
     last_status |-> -1]

\* the raise after the loop: last_exception or Exception("Max retries
\* exceeded")
raise_last(call) == [call EXCEPT !.outcome = "raised"]

\* the end of one pass of the loop without return or break
next_attempt(call) ==
    IF call.attempt = call.max_retries THEN raise_last(call)
    ELSE [call EXCEPT !.attempt = @ + 1]

\* one pass of the loop of _make_request_with_retry; limiter: "acquired",
\* or "denied" when the rate limiter refuses again after the wait
make_request_attempt(call, limiter, request) ==
    IF limiter = "denied"
    THEN next_attempt([call EXCEPT !.last_status = -1])
    ELSE LET called == [call EXCEPT !.calls = @ + 1]
         IN  IF request.kind = "response"
             THEN [called EXCEPT !.outcome = "returned", !.response = TRUE,
                                 !.last_status = -1]
             ELSE LET status == IF request.kind = "exception"
                                THEN request.status ELSE 0
                      failed == [called EXCEPT
                                    !.last_exception =
                                        [present |-> TRUE, status |-> status],
                                    !.last_status = status]
                  IN  IF called.attempt = called.max_retries
                      THEN raise_last(failed)
                      ELSE IF breaks(called.client, status)
                      THEN raise_last(failed)
                      ELSE next_attempt(failed)

\* ------------------------------------------------------------------ state
VARIABLES
    api_keys,        \* settings: the providers an API key is configured for
    override_model,  \* model_router.override_model
    checkpoints,     \* the MemorySaver: thread id -> saved channel values
    pc,              \* per run: "idle", "running", "returning", "done"
    mode,            \* per run: "run" (run) or "stream" (stream_run)
    thread,          \* per run: the thread_id of its run_config
    st,              \* per run: the channel values of the graph
    next_nodes,      \* per run: the nodes scheduled for the next step
    executed,        \* per run: the nodes that have returned, in order
    pending,         \* per run: events of the current update not yet yielded
    events,          \* per run: events the consumer has received
    result,          \* per run: what run() returned
    alone,           \* per run: the state of the same run on a fresh thread
    verification_cache,  \* citation_verifier._verification_cache
    last_call,       \* the last call on the citation verifier and its return
    workflow_runs,   \* api/workflows.py: the record of the endpoint's run id
    workflow_stream, \* the generator stream_workflow_execution (or the
                     \* handler run_draft_from_template_sync) of that run id
    assistant_stream,  \* the generator stream_assistant_response
    ingestion_jobs,  \* api/ingest.py: the record of the endpoint's job id
    ingestion_stream,  \* the generator stream_ingestion_progress of the job
    provider_call    \* one _make_request_with_retry call of a provider client

workflow_vars == <<api_keys, override_model, checkpoints, pc, mode, thread, st,
                   next_nodes, executed, pending, events, result, alone>>
verifier_vars == <<verification_cache, last_call>>
api_vars == <<workflow_runs, workflow_stream, assistant_stream,
              ingestion_jobs, ingestion_stream, provider_call>>
vars == <<workflow_vars, verifier_vars, api_vars>>

Prompts == {"", "draft a lease"}
RunOverrides == {None, "claude-3-opus"}
OverrideChoices == {None, "claude-3-opus", "no-such-model"}

\* the arguments of run / stream_run: every prompt and override with the
\* default jurisdiction, and one request whose jurisdiction is None
RunRequests ==
    [prompt : Prompts, jurisdiction : {"DIFC"}, model_override : RunOverrides]
        \union {[prompt |-> "draft a lease", jurisdiction |-> None,
                  model_override |-> None]}

\* resp: the completion (or RAISE); docs, cites: what retrieve_with_citations
\* returns; fault: the graph runtime itself raises during the step
StageInputs ==
    {i \in [resp : Responses, docs : 0..MaxDocs, cites : 0..MaxDocs,
            fault : BOOLEAN] :
        /\ i.cites <= i.docs
        /\ i.fault => (i.resp = RAISE /\ i.docs = 0)}

Router == [override |-> override_model, keys |-> api_keys]

\* the claims, candidates and candidate lists the verifier is called with
VerifierClaims == {<<>>, <<"employment", "Law,", "Part", "9">>}
CandidatePool ==
    {[title |-> <<"Employment", "Law">>, section |-> <<>>,
      jurisdiction |-> "UAE"],
     [title |-> <<"Employment", "Law">>,
      section |-> <<"Part", "9", "--", "Leave">>, jurisdiction |-> "DIFC"],
     [title |-> <<"Contracts", "Law">>, section |-> <<>>,
      jurisdiction |-> "UAE"]}
CandidateLists ==
    UNION {[1..n -> CandidatePool] : n \in 0..MaxCandidates}
ClaimLists == UNION {[1..n -> VerifierClaims] : n \in 1..2}

\* the claims, thresholds and preferred jurisdictions verify_citation and a
\* retrieval are called with: the default threshold and 0.38321, just below
\* the score 23/60
ScoringClaims ==
    VerifierClaims \union {<<"Leave", "law">>,
                           <<"employment", "Law,", "Part", "9", "Leave">>}
Thresholds == {DefaultThreshold, (Scale * 23) \div 60 - 1}
JurisdictionType == {"DIFC", "DFSA", "UAE", "OTHER"}

NoCall == [op |-> "none", claims |-> <<>>, candidates |-> <<>>,
           use_cache |-> FALSE, results |-> <<>>, citations |-> <<>>]

\* the arguments of a call on the citation functions, before the call
Arguments(claims, candidates) ==
    [NoCall EXCEPT !.op = "arguments", !.claims = claims,
                   !.candidates = candidates]

\* the texts jaccard_similarity is called with: empty, punctuation only,
\* differing in case, punctuation, order and repetition
TextPool ==
    {<<>>, <<"--">>, <<"law">>, <<"Law,">>, <<"law", "law">>, <<"Leave">>,
     <<"employment", "law">>, <<"Employment", "Law,">>,
     <<"law", "--", "employment">>, <<"Part", "9">>,
     <<"employment", "Law,", "Part", "9">>}

\* the arguments of jaccard_similarity(text1, text2), before the call
JaccardArguments(text1, text2) ==
    [op |-> "arguments", text1 |-> text1, text2 |-> text2,
     results |-> <<>>]

\* the query of a retrieval, the stores it may find and its arguments
RetrievalQuery == <<"employment", "Law,", "Part", "9">>
Stores == [1..MaxChunks -> ChunkVariants]
RetrievalArguments(store, context) ==
    [op |-> "arguments", store |-> store, context |-> context,
     error |-> None, matches |-> <<>>, candidates |-> <<>>,
     citations |-> <<>>]

\* the arguments of verify_citation(claim, candidates, threshold) in a run
\* whose caller prefers the jurisdiction (RetrievalContext.jurisdiction)
ScoringArguments(claim, candidates, threshold, jurisdiction) ==
    [op |-> "arguments", claims |-> <<claim>>, candidates |-> candidates,
     use_cache |-> FALSE, results |-> <<>>, citations |-> <<>>,
     threshold |-> threshold, jurisdiction |-> jurisdiction]

\* no request has reached the endpoints: the in-memory stores are empty
\* and no generator exists
ApiInit ==
    /\ workflow_runs = NoWorkflowRun
    /\ workflow_stream = NoWorkflowStream
    /\ assistant_stream = NoAssistantStream
    /\ ingestion_jobs = NoIngestionJob
    /\ ingestion_stream = NoIngestionStream
    /\ provider_call = NoProviderCall

NoCheckpoint == [present |-> FALSE, values |-> initial_state("", "DIFC", None)]

WorkflowInit ==
    /\ api_keys \in SUBSET {"openai", "anthropic"}
    /\ override_model = None
    /\ checkpoints = [t \in Threads |-> NoCheckpoint]
    /\ pc = [r \in Runs |-> "idle"]
    /\ mode = [r \in Runs |-> "run"]
    /\ thread = [r \in Runs |-> WorkflowThread]
    /\ st = [r \in Runs |-> initial_state("", "DIFC", None)]
    /\ next_nodes = [r \in Runs |-> {}]
    /\ executed = [r \in Runs |-> <<>>]
    /\ pending = [r \in Runs |-> <<>>]
    /\ events = [r \in Runs |-> <<>>]
    /\ result = [r \in Runs |-> NoResult]
    /\ alone = [r \in Runs |-> initial_state("", "DIFC", None)]
    /\ ApiInit

Init ==
    /\ WorkflowInit
    /\ verification_cache = {}
    /\ last_call = NoCall

\* POST /models/override (api/assistant.py)
SetModelOverride(model) ==
    /\ override_model' = set_manual_override(api_keys, model)
    /\ override_model' # override_model
    /\ UNCHANGED <<verifier_vars, api_vars, api_keys, checkpoints, pc, mode, thread, st, next_nodes,
                   executed, pending, events, result, alone>>

\* addresses of the initial_state dicts of the stream_run calls still running
LiveAddrs ==
    {a \in Addrs : \E r \in Runs :
        pc[r] \in {"running", "returning"} /\ mode[r] = "stream"
            /\ thread[r] = StreamThread(a)}

\* the first part of run / stream_run: build initial_state and run_config,
\* enter the graph on the thread
Start(r, m, t, prompt, jurisdiction, model_override) ==
    LET input == initial_state(prompt, jurisdiction, model_override)
        loaded == load_checkpoint(checkpoints[t], input)
    IN  /\ pc[r] = "idle"
        /\ pc' = [pc EXCEPT ![r] = "running"]
        /\ mode' = [mode EXCEPT ![r] = m]
        /\ thread' = [thread EXCEPT ![r] = t]
        /\ st' = [st EXCEPT ![r] = loaded]
        /\ alone' = [alone EXCEPT ![r] = input]
        /\ checkpoints' = [checkpoints EXCEPT ![t] =
                              [present |-> TRUE, values |-> loaded]]
        /\ next_nodes' = [next_nodes EXCEPT ![r] = {"preflight"}]
        /\ UNCHANGED <<verifier_vars, api_vars, api_keys, override_model, executed, pending, events,
                       result>>

StartRunWith(r, requests) ==
    \E q \in requests :
        Start(r, "run", WorkflowThread, q.prompt, q.jurisdiction,
              q.model_override)

StartStreamRunWith(r, requests) ==
    \E q \in requests, a \in Addrs \ LiveAddrs :
        Start(r, "stream", StreamThread(a), q.prompt, q.jurisdiction,
              q.model_override)

StartRun(r) == StartRunWith(r, RunRequests)
StartStreamRun(r) == StartStreamRunWith(r, RunRequests)

\* the reference execution follows the same node with the same answers
AloneStep(r, node, inp) ==
    LET ref == NODE_REGISTRY(node, alone[r], Router, inp)
    IN  alone' = [alone EXCEPT ![r] =
                     IF ref.raised \/ inp.fault THEN @
                     ELSE apply_writes(ref.out)]

\* one step of app.ainvoke inside run(); the last step returns the result
RunNodeWith(r, inputs) ==
    /\ pc[r] = "running" /\ mode[r] = "run"
    /\ \E node \in next_nodes[r], inp \in inputs :
        LET res == NODE_REGISTRY(node, st[r], Router, inp)
            new == apply_writes(res.out)
            nxt == NextNodes(node, new)
        IN  /\ AloneStep(r, node, inp)
            /\ IF res.raised \/ inp.fault
               THEN /\ result' = [result EXCEPT ![r] = run_exception(
                                       IF res.raised THEN "ValueError"
                                       ELSE "RuntimeError")]
                    /\ pc' = [pc EXCEPT ![r] = "done"]
                    /\ UNCHANGED <<st, checkpoints, next_nodes, executed>>
               ELSE /\ st' = [st EXCEPT ![r] = new]
                    /\ checkpoints' = [checkpoints EXCEPT ![thread[r]] =
                                          [present |-> TRUE, values |-> new]]
                    /\ next_nodes' = [next_nodes EXCEPT ![r] = nxt]
                    /\ executed' = [executed EXCEPT ![r] = Append(@, node)]
                    /\ IF nxt = {}
                       THEN /\ result' = [result EXCEPT ![r] = run_result(new)]
                            /\ pc' = [pc EXCEPT ![r] = "done"]
                       ELSE UNCHANGED <<result, pc>>
    /\ UNCHANGED <<verifier_vars, api_vars, api_keys, override_model, mode, thread, pending, events>>

astream_pulled_detached(r) == pc[r] \in {"running", "abandoned"}

\* the async for of stream_run asks app.astream for the next update: the
\* generator runs only while its consumer is waiting for the next event
astream_pulled(r) == pc[r] = "running"

\* one update of app.astream inside stream_run, up to its first yield
StreamNodeWith(r, inputs) ==
    /\ astream_pulled(r) /\ mode[r] = "stream" /\ pending[r] = <<>>
    /\ \E node \in next_nodes[r], inp \in inputs :
        LET res == NODE_REGISTRY(node, st[r], Router, inp)
            new == apply_writes(res.out)
        IN  /\ AloneStep(r, node, inp)
            /\ IF res.raised \/ inp.fault
               THEN /\ pending' = [pending EXCEPT ![r] = exception_events]
                    /\ pc' = [pc EXCEPT ![r] = "returning"]
                    /\ UNCHANGED <<st, checkpoints, next_nodes, executed>>
               ELSE /\ st' = [st EXCEPT ![r] = new]
                    /\ checkpoints' = [checkpoints EXCEPT ![thread[r]] =
                                          [present |-> TRUE, values |-> new]]
                    /\ next_nodes' = [next_nodes EXCEPT ![r] =
                                         NextNodes(node, new)]
                    /\ executed' = [executed EXCEPT ![r] = Append(@, node)]
                    /\ pending' = [pending EXCEPT ![r] =
                                      stream_events(node, new)]
                    /\ pc' = [pc EXCEPT ![r] =
                                 IF stream_returns(new) THEN "returning"
                                 ELSE "running"]
    /\ UNCHANGED <<verifier_vars, api_vars, api_keys, override_model, mode, thread, events, result>>

RunNode(r) == RunNodeWith(r, StageInputs)
StreamNode(r) == StreamNodeWith(r, StageInputs)

\* the consumer receives the next event of stream_run
Yield(r) ==
    /\ pc[r] \in {"running", "returning"} /\ pending[r] # <<>>
    /\ events' = [events EXCEPT ![r] = Append(@, Head(pending[r]))]
    /\ pending' = [pending EXCEPT ![r] = Tail(@)]
    /\ pc' = [pc EXCEPT ![r] =
                 IF pc[r] = "returning" /\ Tail(pending[r]) = <<>>
                 THEN "done" ELSE @]
    /\ UNCHANGED <<verifier_vars, api_vars, api_keys, override_model, checkpoints, mode, thread, st,
                   next_nodes, executed, result, alone>>

\* astream is exhausted: the final completion event (graph.py 271-275)
StreamDone(r) ==
    /\ pc[r] = "running" /\ mode[r] = "stream"
    /\ pending[r] = <<>> /\ next_nodes[r] = {}
    /\ pending' = [pending EXCEPT ![r] = done_events]
    /\ pc' = [pc EXCEPT ![r] = "returning"]
    /\ UNCHANGED <<verifier_vars, api_vars, api_keys, override_model, checkpoints, mode, thread, st,
                   next_nodes, executed, events, result, alone>>

\* the consumer abandons the event stream (client disconnect, break out of
\* the async for): the generator of stream_run, suspended at the yield of
\* the last event it delivered, is closed; GeneratorExit is not an Exception,
\* so the except branch of stream_run yields nothing
Abandon(r) ==
    /\ mode[r] = "stream" /\ pc[r] \in {"running", "returning"}
    /\ events[r] # <<>>
    /\ pc' = [pc EXCEPT ![r] = "abandoned"]
    /\ pending' = [pending EXCEPT ![r] = <<>>]
    /\ UNCHANGED <<verifier_vars, api_vars, api_keys, override_model, checkpoints, mode, thread, st,
                   next_nodes, executed, events, result, alone>>

\* citation_verifier.verify(claim, candidates, use_cache)
Verify(claim, candidates, use_cache) ==
    \E call \in {verify(verification_cache, claim, candidates, use_cache)} :
        /\ Cardinality(call.cache) <= MaxCached
        /\ verification_cache' = call.cache
        /\ last_call' = [op |-> "verify", claims |-> <<claim>>,
                         candidates |-> candidates, use_cache |-> use_cache,
                         results |-> <<call.result>>, citations |-> <<>>]
        /\ UNCHANGED <<workflow_vars, api_vars>>

\* citation_verifier.clear_cache()
ClearCache ==
    /\ verification_cache # {}
    /\ verification_cache' = {}
    /\ last_call' = [NoCall EXCEPT !.op = "clear_cache"]
    /\ UNCHANGED <<workflow_vars, api_vars>>

\* citation_verifier.filter_valid_citations(claims, candidates) on the
\* arguments drawn
FilterValidCitations ==
    /\ last_call.op = "arguments"
    /\ last_call' =
           [last_call EXCEPT
               !.op = "filter_valid_citations",
               !.results = verify_batch(last_call.claims, last_call.candidates),
               !.citations = filter_valid_citations(last_call.claims,
                                                    last_call.candidates)]
    /\ UNCHANGED <<verification_cache, workflow_vars, api_vars>>

\* retrieve_with_citations(context) on the query drawn, the matches giving
\* the candidates drawn
RetrieveWithCitations ==
    /\ last_call.op = "arguments" /\ Len(last_call.claims) = 1
    /\ last_call' =
           [last_call EXCEPT
               !.op = "retrieve_with_citations",
               !.results = verify_batch(last_call.claims, last_call.candidates),
               !.citations = retrieve_with_citations(last_call.claims[1],
                                                     last_call.candidates)]
    /\ UNCHANGED <<verification_cache, workflow_vars, api_vars>>

\* verify_citation(claim, candidates, threshold) on the arguments drawn
VerifyCitation ==
    /\ last_call.op = "arguments"
    /\ last_call' =
           [last_call EXCEPT
               !.op = "verify_citation",
               !.results = <<verify_citation(last_call.claims[1],
                                             last_call.candidates,
                                             last_call.threshold,
                                             DefaultBoost)>>]
    /\ UNCHANGED <<verification_cache, workflow_vars, api_vars>>

\* retrieve_with_citations(context) of a context with the verifier's
\* threshold
RetrieveInContext ==
    /\ last_call.threshold = DefaultThreshold
    /\ RetrieveWithCitations

\* jaccard_similarity(text1, text2) and jaccard_similarity(text2, text1) on
\* the texts drawn
JaccardSimilarity ==
    /\ last_call.op = "arguments"
    /\ last_call' =
           [last_call EXCEPT
               !.op = "jaccard_similarity",
               !.results = <<jaccard_similarity(last_call.text1,
                                                last_call.text2),
                             jaccard_similarity(last_call.text2,
                                                last_call.text1)>>]
    /\ UNCHANGED <<verification_cache, workflow_vars, api_vars>>

\* DIFCRetriever.retrieve_with_citations(context) on the store and context
\* drawn
Retrieve ==
    /\ last_call.op = "arguments"
    /\ \E call \in {retrieve_from_store(last_call.store, RetrievalQuery,
                                        last_call.context)} :
          last_call' = [last_call EXCEPT !.op = "retrieve",
                                         !.error = call.error,
                                         !.matches = call.matches,
                                         !.candidates = call.candidates,
                                         !.citations = call.citations]
    /\ UNCHANGED <<verification_cache, workflow_vars, api_vars>>

\* DIFCRetriever.search_by_jurisdiction(query, jurisdiction, limit) on the
\* store, jurisdiction and limit drawn
SearchByJurisdiction ==
    /\ last_call.op = "arguments" /\ ~last_call.context.hybrid_search
    /\ last_call.context.boost_difc
    /\ last_call' =
           [last_call EXCEPT
               !.op = "search_by_jurisdiction",
               !.matches = search(last_call.store,
                                  last_call.context.max_results,
                                  last_call.context.jurisdiction,
                                  last_call.context.jurisdiction = "DIFC")]
    /\ UNCHANGED <<verification_cache, workflow_vars, api_vars>>

\* -------------------------------------------- actions of api/workflows.py
\* the variables the workflow endpoints leave alone
other_api_vars == <<assistant_stream, ingestion_jobs, ingestion_stream,
                    provider_call>>

\* POST /draft-from-template/run (workflows.py 174-237): the PENDING record
\* and the generator handed to EventSourceResponse
RunDraftFromTemplate(q) ==
    /\ workflow_stream.pc = "none"
    /\ workflow_runs' = WorkflowRun("pending", q)
    /\ workflow_stream' = [NoWorkflowStream EXCEPT !.pc = "created",
                                                    !.input_data = q]
    /\ UNCHANGED <<workflow_vars, verifier_vars, other_api_vars>>

\* stream_workflow_execution up to its first yield (workflows.py 45-59)
StreamWorkflowStart ==
    /\ workflow_stream.pc = "created"
    /\ workflow_runs' = [workflow_runs EXCEPT !.status = "running"]
    /\ workflow_stream' = [workflow_stream EXCEPT
                              !.pc = "streaming", !.sse = <<"workflow_start">>]
    /\ UNCHANGED <<workflow_vars, verifier_vars, other_api_vars>>

\* the async for has handled every event stream_run has yielded and asks
\* for the next one
stream_awaited ==
    /\ workflow_stream.pc = "streaming" /\ mode[1] = "stream"
    /\ workflow_stream.forwarded = Len(events[1])

\* workflows.py 62-68: the call of stream_run
StreamWorkflowCall ==
    /\ workflow_stream.pc = "streaming" /\ pc[1] = "idle" /\ pc[2] = "idle"
    /\ valid_jurisdiction(workflow_stream.input_data.jurisdiction)
    /\ StartStreamRunWith(1, {workflow_stream.input_data})

\* JurisdictionType(...) of workflows.py 64 raises ValueError: the except
\* branch (workflows.py 157-171)
StreamWorkflowRaise ==
    /\ workflow_stream.pc = "streaming" /\ pc[1] = "idle"
    /\ ~valid_jurisdiction(workflow_stream.input_data.jurisdiction)
    /\ workflow_runs' = [workflow_runs EXCEPT
                            !.status = "failed", !.error_message = "ValueError"]
    /\ workflow_stream' = [workflow_stream EXCEPT
                              !.pc = "closed", !.sse = Append(@, "error")]
    /\ UNCHANGED <<workflow_vars, verifier_vars, other_api_vars>>

\* stream_run advances while stream_workflow_execution awaits its next event
StreamWorkflowStep ==
    /\ stream_awaited
    /\ \/ StreamNode(1)
       \/ Yield(1)
       \/ StreamDone(1)

\* one pass of the async for body (workflows.py 69-126)
ForwardWorkflowEvent ==
    /\ workflow_stream.pc = "streaming"
    /\ workflow_stream.forwarded < Len(events[1])
    /\ LET event == events[1][workflow_stream.forwarded + 1]
           type == forwarded_type(event)
       IN  /\ workflow_stream' =
                 [workflow_stream EXCEPT
                     !.forwarded = @ + 1,
                     !.sse = IF type = "" THEN @ ELSE Append(@, type),
                     !.pc = IF type = "error" THEN "closed" ELSE @]
           /\ workflow_runs' =
                 CASE type = "thinking_state" ->
                        [workflow_runs EXCEPT
                            !.thinking_states = Append(@, event.label)]
                   [] type = "error" ->
                        [workflow_runs EXCEPT
                            !.status = "failed",
                            !.error_message = event.label[1]]
                   [] OTHER -> workflow_runs
    /\ UNCHANGED <<workflow_vars, verifier_vars, other_api_vars>>

\* workflows.py 129-136: the stream has ended without an error event and
\* the pipeline is run again for the final result
StreamWorkflowRun ==
    /\ stream_awaited /\ pc[1] = "done" /\ pc[2] = "idle"
    /\ StartRunWith(2, {workflow_stream.input_data})

\* run() advances while its caller awaits it
AwaitedRunStep ==
    /\ workflow_stream.pc \in {"streaming", "sync"}
    /\ RunNode(2)

\* workflows.py 137-155: run() has returned
StreamWorkflowComplete ==
    /\ workflow_stream.pc = "streaming" /\ pc[2] = "done"
    /\ workflow_runs' = completed_record(workflow_runs, result[2], st[2])
    /\ workflow_stream' =
          [workflow_stream EXCEPT
              !.pc = "closed",
              !.sse = Append(@, "workflow_complete"),
              !.complete = [present |-> TRUE, success |-> result[2].success,
                            output |-> run_output(result[2], st[2]),
                            citations |-> result[2].citations]]
    /\ UNCHANGED <<workflow_vars, verifier_vars, other_api_vars>>

\* the client disconnects: the response task is cancelled and the generator
\* closed at the await or yield it is suspended at; CancelledError and
\* GeneratorExit are no Exception, so the except branch does not run
AbandonWorkflowStream ==
    /\ workflow_stream.pc = "streaming"
    /\ workflow_stream' = [workflow_stream EXCEPT !.pc = "abandoned"]
    /\ UNCHANGED <<workflow_vars, verifier_vars, workflow_runs, other_api_vars>>

\* POST /draft-from-template/run-sync up to the await of run()
\* (workflows.py 240-267); JurisdictionType(jurisdiction) raising becomes
\* the HTTP 500 of the except branch, with no record
RunDraftFromTemplateSync(q) ==
    /\ workflow_stream.pc = "none"
    /\ workflow_stream' =
          [NoWorkflowStream EXCEPT
              !.pc = IF valid_jurisdiction(q.jurisdiction)
                     THEN "sync" ELSE "raised",
              !.input_data = q]
    /\ UNCHANGED <<workflow_vars, verifier_vars, workflow_runs, other_api_vars>>

SyncWorkflowRun ==
    /\ workflow_stream.pc = "sync" /\ pc[2] = "idle"
    /\ StartRunWith(2, {workflow_stream.input_data})

\* workflows.py 270-298: run() has returned; the record and the response
SyncWorkflowRecord ==
    /\ workflow_stream.pc = "sync" /\ pc[2] = "done"
    /\ workflow_runs' = sync_record(workflow_stream.input_data, result[2],
                                    st[2])
    /\ workflow_stream' = [workflow_stream EXCEPT !.pc = "responded"]
    /\ UNCHANGED <<workflow_vars, verifier_vars, other_api_vars>>

\* ----------------------------------------------- actions of api/ingest.py
\* POST /ingest/batch (ingest.py 291-359) with n files: the PENDING job and
\* the generator handed to EventSourceResponse
IngestDocumentsBatch(n) ==
    /\ ingestion_stream.pc = "none"
    /\ ingestion_jobs' = IngestionJob(n)
    /\ ingestion_stream' = [NoIngestionStream EXCEPT !.pc = "created",
                                                      !.file_count = n]
    /\ UNCHANGED <<workflow_vars, verifier_vars, workflow_runs,
                   workflow_stream, assistant_stream, provider_call>>

\* stream_ingestion_progress up to the file loop (ingest.py 57-77)
StreamIngestionStart ==
    /\ ingestion_stream.pc = "created"
    /\ ingestion_jobs' = IF ingestion_jobs.present
                         THEN [ingestion_jobs EXCEPT !.status = "processing"]
                         ELSE ingestion_jobs
    /\ ingestion_stream' = [ingestion_stream EXCEPT !.pc = "processing"]
    /\ UNCHANGED <<workflow_vars, verifier_vars, workflow_runs,
                   workflow_stream, assistant_stream, provider_call>>

\* one pass of the file loop (ingest.py 79-247)
ProcessFile(outcome) ==
    /\ ingestion_stream.pc = "processing"
    /\ ingestion_stream.i < ingestion_stream.file_count
    /\ ingestion_stream' = process_file(ingestion_stream, outcome)
    /\ UNCHANGED <<workflow_vars, verifier_vars, workflow_runs,
                   workflow_stream, assistant_stream, ingestion_jobs,
                   provider_call>>

\* after the file loop (ingest.py 249-271)
StreamIngestionFinish ==
    /\ ingestion_stream.pc = "processing"
    /\ ingestion_stream.i = ingestion_stream.file_count
    /\ ingestion_jobs' = IF ingestion_jobs.present
                         THEN finished_job(ingestion_jobs, ingestion_stream)
                         ELSE ingestion_jobs
    /\ ingestion_stream' = [ingestion_stream EXCEPT !.pc = "closed"]
    /\ UNCHANGED <<workflow_vars, verifier_vars, workflow_runs,
                   workflow_stream, assistant_stream, provider_call>>

\* DELETE /ingest/jobs/{job_id} (ingest.py 587-613) for a job in the store
CancelIngestionJob ==
    /\ ingestion_jobs.present
    /\ ingestion_jobs' = cancel_ingestion_job(ingestion_jobs)
    /\ UNCHANGED <<workflow_vars, verifier_vars, workflow_runs,
                   workflow_stream, assistant_stream, ingestion_stream,
                   provider_call>>

\* ------------------------------------------ actions of the provider clients
\* a call of _make_request_with_retry up to the loop
MakeRequestWithRetry(client, max_retries) ==
    /\ provider_call.client = "none"
    /\ provider_call' = [NoProviderCall EXCEPT !.client = client,
                                               !.max_retries = max_retries,
                                               !.outcome = "pending"]
    /\ UNCHANGED <<workflow_vars, verifier_vars, workflow_runs,
                   workflow_stream, assistant_stream, ingestion_jobs,
                   ingestion_stream>>

\* one pass of the retry loop, up to its sleep, return or raise
RequestAttempt(limiter, request) ==
    /\ provider_call.outcome = "pending"
    /\ provider_call' = make_request_attempt(provider_call, limiter, request)
    /\ UNCHANGED <<workflow_vars, verifier_vars, workflow_runs,
                   workflow_stream, assistant_stream, ingestion_jobs,
                   ingestion_stream>>

\* -------------------------------------------- actions of api/assistant.py
\* POST /assistant/query (assistant.py 230-261) and the first events of
\* stream_assistant_response (assistant.py 44-66, 113-122); the endpoint
\* rejects an empty prompt
QueryAssistant(assistant_mode, prompt) ==
    /\ assistant_stream.pc = "none"
    /\ assistant_stream' =
          [NoAssistantStream EXCEPT
              !.pc = assistant_mode, !.prompt = prompt,
              !.sse = <<"thinking_state", "thinking_state">>]
    /\ UNCHANGED <<workflow_vars, verifier_vars, workflow_runs,
                   workflow_stream, ingestion_jobs, ingestion_stream,
                   provider_call>>

\* assistant.py 124-168: the retrieval of the assist branch; a raise goes to
\* the except branch (assistant.py 209-215)
AssistRetrieve(inp) ==
    /\ assistant_stream.pc = "assist"
    /\ assistant_stream' =
          IF inp.resp = RAISE
          THEN [assistant_stream EXCEPT !.pc = "closed",
                                        !.sse = Append(@, "error")]
          ELSE [assistant_stream EXCEPT
                   !.pc = "retrieved",
                   !.sse = @ \o <<"thinking_state">>
                             \o Repeat("citation", inp.cites)
                             \o <<"thinking_state">>]
    /\ UNCHANGED <<workflow_vars, verifier_vars, workflow_runs,
                   workflow_stream, ingestion_jobs, ingestion_stream,
                   provider_call>>

\* assistant.py 170-207: simple_assistant.run and the events after it
AssistRun(inp_retrieve, inp_draft) ==
    /\ assistant_stream.pc = "retrieved"
    /\ LET res == simple_assistant_run(assistant_stream.prompt, "DIFC",
                                          Router, inp_retrieve, inp_draft,
                                          inp_retrieve.fault)
       IN  assistant_stream' =
              [assistant_stream EXCEPT
                  !.pc = "closed", !.ran = TRUE,
                  !.state_error = res.state_error,
                  !.sse = @ \o assist_result_events(res)
                            \o (IF res.success THEN <<"done">> ELSE <<>>)]
    /\ UNCHANGED <<workflow_vars, verifier_vars, workflow_runs,
                   workflow_stream, ingestion_jobs, ingestion_stream,
                   provider_call>>

\* assistant.py 68-72: the call of stream_run of the draft branch
AssistantStreamCall ==
    /\ assistant_stream.pc = "draft" /\ pc[1] = "idle"
    /\ StartStreamRunWith(1, {[prompt |-> assistant_stream.prompt,
                               jurisdiction |-> "DIFC",
                               model_override |-> None]})

\* stream_run advances while stream_assistant_response awaits its next event
AssistantStreamStep ==
    /\ assistant_stream.pc = "draft" /\ mode[1] = "stream"
    /\ assistant_stream.forwarded = Len(events[1])
    /\ \/ StreamNode(1)
       \/ Yield(1)
       \/ StreamDone(1)

\* one pass of the async for body (assistant.py 73-111)
ForwardAssistantEvent ==
    /\ assistant_stream.pc = "draft"
    /\ assistant_stream.forwarded < Len(events[1])
    /\ LET event == events[1][assistant_stream.forwarded + 1]
       IN  assistant_stream' =
              [assistant_stream EXCEPT
                  !.forwarded = @ + 1,
                  !.sse = @ \o draft_mode_events(event),
                  !.pc = IF event.type = "error" THEN "closed" ELSE @]
    /\ UNCHANGED <<workflow_vars, verifier_vars, workflow_runs,
                   workflow_stream, ingestion_jobs, ingestion_stream,
                   provider_call>>

\* assistant.py 199-207: the final done event after the async for
AssistantDone ==
    /\ assistant_stream.pc = "draft" /\ pc[1] = "done"
    /\ assistant_stream.forwarded = Len(events[1])
    /\ assistant_stream' = [assistant_stream EXCEPT
                               !.pc = "closed", !.sse = Append(@, "done")]
    /\ UNCHANGED <<workflow_vars, verifier_vars, workflow_runs,
                   workflow_stream, ingestion_jobs, ingestion_stream,
                   provider_call>>

\* ------------------------------------------------------ specifications
\* one run at a time, the router's override may change under it
Next ==
    \/ \E m \in OverrideChoices : SetModelOverride(m)
    \/ StartRun(1)
    \/ StartStreamRun(1)
    \/ RunNode(1)
    \/ StreamNode(1)
    \/ Yield(1)
    \/ StreamDone(1)

Spec == Init /\ [][Next]_vars

\* stream_run with a consumer that keeps reading and collaborators that
\* answer: every enabled step of the generator is eventually taken
FairSpec ==
    Init /\ [][Next]_vars
         /\ WF_vars(StreamNode(1)) /\ WF_vars(Yield(1)) /\ WF_vars(StreamDone(1))

\* one run whose consumer may abandon the stream
NextAbandon ==
    \/ Next
    \/ Abandon(1)

SpecAbandon == Init /\ [][NextAbandon]_vars

\* calls on the global citation verifier, in any order
InitVerifier == Init /\ api_keys = {"openai", "anthropic"}

NextVerifier ==
    \/ \E claim \in VerifierClaims, candidates \in CandidateLists,
          use_cache \in BOOLEAN : Verify(claim, candidates, use_cache)
    \/ ClearCache

SpecVerifier == InitVerifier /\ [][NextVerifier]_vars

\* one call of filter_valid_citations or retrieve_with_citations on
\* arguments drawn from the claim lists and candidate lists
InitCitations ==
    /\ WorkflowInit /\ api_keys = {"openai", "anthropic"}
    /\ verification_cache = {}
    /\ \E claims \in ClaimLists, candidates \in CandidateLists :
          last_call = Arguments(claims, candidates)

NextCitations ==
    \/ FilterValidCitations
    \/ RetrieveWithCitations

SpecCitations == InitCitations /\ [][NextCitations]_vars

\* one call of verify_citation, or one retrieval verifying its candidates,
\* on a claim, candidate list, threshold and preferred jurisdiction drawn
InitScoring ==
    /\ WorkflowInit /\ api_keys = {"openai", "anthropic"}
    /\ verification_cache = {}
    /\ \E claim \in ScoringClaims, candidates \in CandidateLists,
          threshold \in Thresholds, jurisdiction \in JurisdictionType :
          last_call = ScoringArguments(claim, candidates, threshold,
                                       jurisdiction)

NextScoring ==
    \/ VerifyCitation
    \/ RetrieveInContext

SpecScoring == InitScoring /\ [][NextScoring]_vars

\* one call of jaccard_similarity each way on a pair of texts drawn
InitJaccard ==
    /\ WorkflowInit /\ api_keys = {"openai", "anthropic"}
    /\ verification_cache = {}
    /\ \E text1 \in TextPool, text2 \in TextPool :
          last_call = JaccardArguments(text1, text2)

NextJaccard == JaccardSimilarity

SpecJaccard == InitJaccard /\ [][NextJaccard]_vars

\* one retrieval on a store and a context drawn
InitRetrieval ==
    /\ WorkflowInit /\ api_keys = {"openai", "anthropic"}
    /\ verification_cache = {}
    /\ \E store \in Stores, context \in RetrievalContexts :
          last_call = RetrievalArguments(store, context)

NextRetrieval ==
    \/ Retrieve
    \/ SearchByJurisdiction

SpecRetrieval == InitRetrieval /\ [][NextRetrieval]_vars

\* one request to a workflow endpoint, streamed or synchronous; the client
\* of the stream may disconnect
WorkflowRequests ==
    [prompt : Prompts, jurisdiction : {"DIFC", "XX"}, model_override : {None}]

InitWorkflows == Init /\ api_keys = {"openai", "anthropic"}

NextWorkflows ==
    \/ \E q \in WorkflowRequests : RunDraftFromTemplate(q)
    \/ StreamWorkflowStart
    \/ StreamWorkflowCall
    \/ StreamWorkflowRaise
    \/ StreamWorkflowStep
    \/ ForwardWorkflowEvent
    \/ StreamWorkflowRun
    \/ AwaitedRunStep
    \/ StreamWorkflowComplete
    \/ AbandonWorkflowStream
    \/ \E q \in WorkflowRequests : RunDraftFromTemplateSync(q)
    \/ SyncWorkflowRun
    \/ SyncWorkflowRecord

SpecWorkflows == InitWorkflows /\ [][NextWorkflows]_vars

\* one ingestion job of up to MaxFiles files, its stream, and cancel
\* requests at any moment
MaxFiles == 3

NextIngest ==
    \/ \E n \in 1..MaxFiles : IngestDocumentsBatch(n)
    \/ StreamIngestionStart
    \/ \E outcome \in FileOutcomes : ProcessFile(outcome)
    \/ StreamIngestionFinish
    \/ CancelIngestionJob

SpecIngest == Init /\ [][NextIngest]_vars

\* one call of _make_request_with_retry of either client with up to
\* MaxRetries retries; the rate limiter and the request answer in any way
MaxRetries == 2

NextProvider ==
    \/ \E client \in {"openai", "anthropic"}, max_retries \in 0..MaxRetries :
          MakeRequestWithRetry(client, max_retries)
    \/ \E limiter \in {"acquired", "denied"}, request \in RequestOutcomes :
          RequestAttempt(limiter, request)

SpecProvider == Init /\ [][NextProvider]_vars

\* one request to the assistant stream, in assist or draft mode
NextAssistant ==
    \/ \E m \in {"assist", "draft"} : QueryAssistant(m, "draft a lease")
    \/ \E inp \in StageInputs : AssistRetrieve(inp)
    \/ \E inp_retrieve \in StageInputs, inp_draft \in StageInputs :
          AssistRun(inp_retrieve, inp_draft)
    \/ AssistantStreamCall
    \/ AssistantStreamStep
    \/ ForwardAssistantEvent
    \/ AssistantDone

SpecAssistant == Init /\ [][NextAssistant]_vars

\* two runs side by side on the one global qaai_workflow graph; the
\* collaborators answer with a document and a citation, or fail
ConcInputs ==
    {i \in StageInputs :
        ~i.fault /\ i.docs = MaxDocs /\ i.cites = MaxDocs
            /\ i.resp \in {RAISE, "plan", "draft", "approved"}}

ConcRequests == {q \in RunRequests : q.jurisdiction = "DIFC"}

InitConc == Init /\ api_keys = {"openai", "anthropic"}

NextConc ==
    \E r \in Runs :
        \/ StartRunWith(r, ConcRequests)
        \/ StartStreamRunWith(r, ConcRequests)
        \/ RunNodeWith(r, ConcInputs)
        \/ StreamNodeWith(r, ConcInputs)
        \/ Yield(r)
        \/ StreamDone(r)

SpecConc == InitConc /\ [][NextConc]_vars

\* ------------------------------------------------------------ properties
StageIndex(node) == CHOOSE i \in 1..Len(NodeNames) : NodeNames[i] = node

\* the stage whose code appends the label with this text
LabelStage(text) ==
    CASE text \in {"Validating workflow inputs",
                   "Preflight validation completed"} -> "preflight"
      [] text \in {"Creating workflow plan", "Using model for planning",
                   "Plan generation completed"} -> "plan"
      [] text \in {"Retrieving DIFC sources and context",
                   "Retrieved relevant documents",
                   "Generated verified citations"} -> "retrieve"
      [] text \in {"Drafting content with DIFC legal analysis",
                   "Using model for drafting",
                   "Draft generation completed"} -> "draft"
      [] text \in {"Verifying citations and content accuracy",
                   "Using model for verification",
                   "Citation verification passed",
                   "Citation verification flagged issues"} -> "verify_citations"
      [] text \in {"Preparing content for review",
                   "Content prepared for human review"} -> "human_review"
      [] text \in {"Exporting final content", "Export completed"} -> "export"

\* the stage whose code sets this error
ErrorStage(error) ==
    CASE error \in {"Missing user prompt", "Model availability issues"} -> "preflight"
      [] error \in {"Planning error", "Failed to generate plan"} -> "plan"
      [] error = "Retrieval error" -> "retrieve"
      [] error \in {"Drafting error", "Failed to generate draft"} -> "draft"
      [] error \in {"Verification error", "Failed to verify content"} -> "verify_citations"

IsPrefix(s, t) == Len(s) <= Len(t) /\ SubSeq(t, 1, Len(s)) = s

Terminal == {"done", "error"}

EmittedLabels(r) ==
    LET IsThinking(e) == e.type = "thinking_state"
        th == SelectSeq(events[r], IsThinking)
    IN  [i \in 1..Len(th) |-> th[i].label]

\* what the caller of a finished run sees: the result of run(), or the
\* last state streamed by stream_run
FinalError(r) == IF mode[r] = "run" THEN result[r].error ELSE st[r].error
FinalTrace(r) ==
    IF mode[r] = "run" THEN result[r].thinking_states ELSE st[r].thinking

HaltingErrors ==
    {"Missing user prompt", "Model availability issues", "Planning error",
     "Failed to generate plan", "Retrieval error", "Drafting error",
     "Failed to generate draft"}

\* C1: when Intake, Plan, Retrieve or Draft is the first stage to set
\* state.error, the finished run's trace holds no label of a later stage.
C1_HaltAfterFirstError ==
    \A r \in Runs :
        (pc[r] = "done" /\ FinalError(r) \in HaltingErrors)
        => \A i \in 1..Len(FinalTrace(r)) :
              StageIndex(LabelStage(FinalTrace(r)[i][1]))
                  <= StageIndex(ErrorStage(FinalError(r)))

\* C2: an event sequence of stream_run holds at most one terminal event
\* (done or error), and that event is the last one: nothing is emitted or
\* left to emit after it.
C2_TerminalEventIsLast ==
    \A r \in Runs :
        /\ \A i \in 1..Len(events[r]) :
              events[r][i].type \in Terminal => i = Len(events[r])
        /\ (events[r] # <<>> /\ Last(events[r]).type \in Terminal)
              => (pending[r] = <<>> /\ pc[r] = "done")

C2_Witness ==
    /\ pc[1] = "done" /\ mode[1] = "stream" /\ Len(events[1]) >= 3
    /\ Last(events[1]).type = "error"
    /\ Len(executed[1]) < Len(NodeNames)

\* C3: every streaming run that has started eventually emits a terminal
\* event, done or error, also when a stage raises.
C3_StreamTerminates ==
    (pc[1] = "running" /\ mode[1] = "stream")
        ~> (events[1] # <<>> /\ Last(events[1]).type \in Terminal)

C3_Witness ==
    /\ pc[1] = "done" /\ mode[1] = "stream"
    /\ events[1] # <<>> /\ Last(events[1]) = exception_events[1]

\* C4: in a finished streaming run the labels of the thinking_state events,
\* in emission order, are the run's trace.
C4_EveryLabelEmitted ==
    \A r \in Runs :
        (pc[r] = "done" /\ mode[r] = "stream")
            => EmittedLabels(r) = st[r].thinking

ExpectedEmptyPromptEvents ==
    <<Event("thinking_state", "preflight", <<"Validating workflow inputs", "">>, 0),
      Event("error", "preflight", <<"Missing user prompt", "">>, 0)>>

\* C5: a streaming run with an empty instruction, once Intake has returned,
\* emits one thinking_state event, then one error event with the message
\* "Missing user prompt", and nothing else (no draft fragment, no citation).
C5_EmptyPromptEvents ==
    \A r \in Runs :
        (mode[r] = "stream" /\ st[r].prompt = "" /\ executed[r] # <<>>)
            => /\ IsPrefix(events[r], ExpectedEmptyPromptEvents)
               /\ pc[r] = "done" => events[r] = ExpectedEmptyPromptEvents

C5_Witness ==
    /\ pc[1] = "done" /\ mode[1] = "stream" /\ st[1].prompt = ""
    /\ Len(events[1]) = 2

\* C6: once state.error is set, every later state of the run carries the
\* same error, plan, draft and citations.
C6_ErrorFreezesContent ==
    [][\A r \in Runs :
          (pc[r] # "idle" /\ st[r].error # None)
              => /\ st'[r].error = st[r].error
                 /\ st'[r].plan = st[r].plan
                 /\ st'[r].draft = st[r].draft
                 /\ st'[r].citations = st[r].citations]_vars

\* C7: every stage function that returns has appended at least one label:
\* for every state a run reaches, every stage and every answer of the
\* collaborators, the output trace is longer than the input trace.
C7_StageAlwaysAppends ==
    \A r \in {q \in Runs : pc[q] # "idle"} :
        \A node \in Nodes, inp \in StageInputs :
            LET res == NODE_REGISTRY(node, st[r], Router, inp)
            IN  ~res.raised => Len(res.out.thinking) > Len(st[r].thinking)

C7_Witness ==
    /\ st[1].error = "Missing user prompt" /\ mode[1] = "run"
    /\ Len(executed[1]) >= 2 /\ Len(st[1].thinking) >= 2

\* C8: the trace is append-only and ordered by stage position: every stage
\* returns a trace that extends the trace it was given, and in a run's trace
\* no label of a later stage precedes a label of an earlier stage.
C8_TraceAppendOnly ==
    \A r \in {q \in Runs : pc[q] # "idle"} :
        /\ \A node \in Nodes, inp \in StageInputs :
              IsPrefix(st[r].thinking,
                       NODE_REGISTRY(node, st[r], Router, inp).out.thinking)
        /\ \A i, j \in 1..Len(st[r].thinking) :
              i < j => StageIndex(LabelStage(st[r].thinking[i][1]))
                          <= StageIndex(LabelStage(st[r].thinking[j][1]))

C8_Witness ==
    /\ pc[1] = "done" /\ st[1].error = None
    /\ Len(executed[1]) = Len(NodeNames) /\ Len(st[1].thinking) >= 14

\* C9: concurrent runs are isolated: from its start to its end, the state of
\* each run equals the state of the same run executed alone on a fresh
\* thread with the same inputs and the same collaborator answers.
C9_RunsIsolated ==
    \A r \in Runs : pc[r] # "idle" => st[r] = alone[r]

SelectionLabels == {"Using model for planning", "Using model for drafting",
                    "Using model for verification"}

\* C10: in a run started with a manual model override, every model selected
\* by Plan, Draft and Verify is the override model.
C10_RunOverrideSelected ==
    \A r \in Runs :
        st[r].model_override # None
            => \A i \in 1..Len(st[r].thinking) :
                  st[r].thinking[i][1] \in SelectionLabels
                      => st[r].thinking[i][2] = st[r].model_override

\* C11: no stage function, and not emit, modifies the state object or the
\* trace list it is given: for every state a run reaches, the stage that
\* runs on it and every answer of the collaborators, after the call the caller's
\* dict and its trace list hold what they held before, and what is returned
\* is another dict that holds the stage's output state.
C11_InputStateUnmodified ==
    \A r \in {q \in Runs : pc[q] # "idle"} :
        LET h0 == new_heap(st[r])
        IN  /\ \A node \in next_nodes[r], inp \in StageInputs :
                  LET call == stage_object(node, h0, 1, Router, inp)
                      res == NODE_REGISTRY(node, st[r], Router, inp)
                  IN  /\ deref(call.heap, 1) = st[r]
                      /\ call.heap.lists[1] = st[r].thinking
                      /\ ~call.raised
                            => /\ call.ref # 1
                               /\ deref(call.heap, call.ref) = res.out
            /\ \A text \in {"Validating workflow inputs", "Export completed"} :
                  LET e == emit_object(h0, 1, <<text, "">>)
                  IN  /\ deref(e.heap, 1) = st[r]
                      /\ e.ref # 1
                      /\ deref(e.heap, e.ref) = emit(st[r], <<text, "">>)

C11_Witness ==
    /\ pc[1] = "running" /\ Len(executed[1]) = 3
    /\ Len(st[1].citations) = 1 /\ Len(st[1].thinking) >= 8

\* the errors a stage sets when a call to the router, the completion
\* provider or the retriever raises inside its try block
CollaboratorErrors ==
    {"Planning error", "Retrieval error", "Drafting error",
     "Verification error"}

\* the labels of the trace up to and including the stage
UpToStage(trace, node) ==
    LET NotLater(label) == StageIndex(LabelStage(label[1])) <= StageIndex(node)
    IN  SelectSeq(trace, NotLater)

C13_FailureChangesOnlyErrorAndTrace ==
    \A r \in {q \in Runs : pc[q] # "idle"} :
        \A node \in next_nodes[r], inp \in StageInputs :
            LET res == NODE_REGISTRY(node, st[r], Router, inp)
            IN  (~res.raised /\ res.out.error \notin {None, st[r].error})
                    => res.out = [st[r] EXCEPT !.error = res.out.error,
                                               !.thinking = res.out.thinking]

C13_Witness ==
    /\ pc[1] = "done" /\ st[1].error = "Drafting error"
    /\ st[1].plan = "plan" /\ Len(st[1].citations) = 1
    /\ st[1].retrieved_context = 1

\* C14: Intake sets state.error when the instruction is missing and also
\* when the jurisdiction is missing, and in both cases the run halts after
\* Intake: the finished run has an error and its trace holds the labels of
\* Intake only.
C14_IntakeRejectsMissingInput ==
    \A r \in Runs :
        (pc[r] = "done" /\ executed[r] # <<>>
            /\ (st[r].prompt = "" \/ st[r].jurisdiction \in {None, Absent}))
            => /\ FinalError(r) # None
               /\ \A i \in 1..Len(FinalTrace(r)) :
                     LabelStage(FinalTrace(r)[i][1]) = "preflight"

\* the label each stage appends first
FirstLabels ==
    {"Validating workflow inputs", "Creating workflow plan",
     "Retrieving DIFC sources and context",
     "Drafting content with DIFC legal analysis",
     "Verifying citations and content accuracy",
     "Preparing content for review", "Exporting final content"}

\* the finished run reported no error: run() returned a result without
\* error, stream_run ended with the done event
ErrorFree(r) ==
    /\ pc[r] = "done" /\ st[r].error = None
    /\ IF mode[r] = "run" THEN result[r].error = None
       ELSE Last(events[r]).type = "done"

C16_CitationEmittedOnce ==
    \A r \in Runs :
        mode[r] = "stream"
            => /\ \A i, j \in 1..Len(events[r]) :
                     (events[r][i].type = "citation"
                         /\ events[r][j].type = "citation"
                         /\ events[r][i].citation = events[r][j].citation)
                        => i = j
               /\ (pc[r] = "done" /\ Last(events[r]).type = "done")
                     => \A c \in Range(st[r].citations) :
                           \E i \in 1..Len(events[r]) :
                               /\ events[r][i].type = "citation"
                               /\ events[r][i].citation = c

\* C17: when Export finishes without error, the trace stored in the export
\* artifact equals the trace of the state Export returns, Export's own
\* labels included.
C17_ExportHoldsFullTrace ==
    \A r \in Runs :
        (pc[r] = "running" /\ "export" \in next_nodes[r])
            => \A inp \in StageInputs :
                  LET res == export(st[r], Router, inp)
                  IN  (~res.raised /\ res.out.error = None)
                          => /\ res.out.export_data.present
                             /\ res.out.export_data.thinking_states
                                    = res.out.thinking

\* C18: after the caller abandons a run's event stream the run is terminal:
\* no further stage starts, no collaborator is called (the state and the
\* list of executed stages stay as they are) and no further event is
\* produced or delivered.
C18_AbandonedRunIsTerminal ==
    [][\A r \in Runs :
          pc[r] = "abandoned"
              => /\ pc'[r] = "abandoned"
                 /\ executed'[r] = executed[r]
                 /\ st'[r] = st[r]
                 /\ next_nodes'[r] = next_nodes[r]
                 /\ events'[r] = events[r]
                 /\ pending'[r] = <<>>]_vars

C18_Witness ==
    /\ pc[1] = "abandoned" /\ next_nodes[1] # {}
    /\ Len(executed[1]) = 3 /\ st[1].error = None
    /\ override_model = "claude-3-opus"

\* C19: every CitationVerifier.verify call, with or without the cache,
\* returns what a fresh verify_citation returns on the call's own claim and
\* candidates; a memoized result is never returned for a candidate list that
\* differs in a title, section or jurisdiction from the one it was computed
\* for.
C19_CachedVerifyEqualsFresh ==
    last_call.op = "verify"
        => last_call.results[1]
               = verify_citation(last_call.claims[1], last_call.candidates,
                                 DefaultThreshold, DefaultBoost)

\* C20: a Citation is produced only from a VerificationResult that passed:
\* filter_valid_citations returns, in order, the best candidates of the
\* claims whose result passed, retrieve_with_citations returns citations of
\* the best candidate only when the query's result passed, and a failing
\* result gives no citation (and nothing is raised: the call returns).
C20_CitationOnlyFromPassed ==
    LET PassedCount(rs) == Cardinality({i \in 1..Len(rs) : rs[i].passed})
        IsBestOfPassed(c, rs) ==
            \E i \in 1..Len(rs) :
                /\ rs[i].passed
                /\ rs[i].best_candidate
                       = [title |-> c.title, section |-> c.section,
                          jurisdiction |-> c.jurisdiction]
    IN  /\ last_call.op \in {"filter_valid_citations",
                             "retrieve_with_citations"}
              => /\ \A i \in 1..Len(last_call.citations) :
                       /\ last_call.citations[i].present
                       /\ IsBestOfPassed(last_call.citations[i],
                                         last_call.results)
                 /\ PassedCount(last_call.results) = 0
                       => last_call.citations = <<>>
        /\ last_call.op = "filter_valid_citations"
              => Len(last_call.citations) = PassedCount(last_call.results)
        /\ \A i \in 1..Len(last_call.results) :
              ~last_call.results[i].passed
                  => ~create_verified_citation(last_call.claims[1],
                                               last_call.results[i]).present

C20_Witness ==
    /\ last_call.op = "filter_valid_citations"
    /\ Len(last_call.claims) = 2 /\ Len(last_call.citations) = 1
    /\ ~last_call.results[1].passed /\ last_call.results[2].passed

\* C21: for every claim, non-empty candidate list and threshold, the
\* VerificationResult of verify_citation has all_scores sorted by descending
\* score, best_candidate is a candidate of the list whose score is maximal,
\* and passed is true exactly when the reported score is >= threshold.
C21_ResultRankedAndThresholded ==
    (last_call.op = "verify_citation" /\ last_call.claims[1] # <<>>
         /\ last_call.candidates # <<>>)
        => LET r == last_call.results[1]
               n == Len(r.all_scores)
           IN  /\ n = Len(last_call.candidates)
               /\ \A i \in 1..(n - 1) :
                      r.all_scores[i].score >= r.all_scores[i + 1].score
               /\ \E i \in 1..n :
                      /\ r.all_scores[i].candidate = r.best_candidate
                      /\ r.all_scores[i].score = r.score
               /\ \A i \in 1..n : r.score >= r.all_scores[i].score
               /\ r.passed <=> (r.score * Scale >= last_call.threshold * 1000)

\* C22 as stated: jaccard_similarity(a, b) = jaccard_similarity(b, a) and the
\* value is in [0, 1]; two texts whose normalized forms are identical give
\* 1.0; texts whose normalized word sets are disjoint give 0.0.
C22_JaccardAsStated ==
    last_call.op = "jaccard_similarity"
        => LET norm1 == normalize_text(last_call.text1)
               norm2 == normalize_text(last_call.text2)
           IN  /\ last_call.results[1] = last_call.results[2]
               /\ last_call.results[1] \in 0..Scale
               /\ norm1 = norm2 => last_call.results[1] = Scale
               /\ Range(norm1) \intersect Range(norm2) = {}
                      => last_call.results[1] = 0

\* C22 (amended): jaccard_similarity is symmetric with its value in [0, 1];
\* two texts whose normalized forms are identical and not empty give 1.0;
\* texts whose normalized word sets are disjoint give 0.0, which includes
\* every pair with a text whose normalized form is empty.
C22_JaccardSymmetricBounded ==
    last_call.op = "jaccard_similarity"
        => LET norm1 == normalize_text(last_call.text1)
               norm2 == normalize_text(last_call.text2)
           IN  /\ last_call.results[1] = last_call.results[2]
               /\ last_call.results[1] \in 0..Scale
               /\ (norm1 = norm2 /\ norm1 # <<>>)
                      => last_call.results[1] = Scale
               /\ Range(norm1) \intersect Range(norm2) = {}
                      => last_call.results[1] = 0
               /\ (norm1 = <<>> \/ norm2 = <<>>) => last_call.results[1] = 0

C22_Witness ==
    /\ last_call.op = "jaccard_similarity"
    /\ last_call.text1 = <<"Employment", "Law,">>
    /\ last_call.text2 = <<"employment", "law">>
    /\ last_call.results = <<Scale, Scale>>

C24_BoostFollowsPreferredJurisdiction ==
    last_call.op = "retrieve_with_citations"
        => \A k \in 1..Len(last_call.results) :
              \A i \in 1..Len(last_call.results[k].all_scores) :
                 LET e == last_call.results[k].all_scores[i]
                     base == enhanced_similarity(last_call.claims[1],
                                                 e.candidate)
                 IN  e.score
                         = Round3(Min(base
                                + (IF e.candidate.jurisdiction
                                         = last_call.jurisdiction
                                   THEN DefaultBoost ELSE 0), Scale))

\* C25: verifying twice with the same claim and candidates (and the
\* verifier's threshold) yields identical VerificationResults: a call of
\* CitationVerifier.verify that follows a call with the same claim and
\* candidate list returns the same result, whether or not either call uses
\* the cache.
C25_VerifyTwiceSameResult ==
    [][(/\ last_call.op = "verify" /\ last_call'.op = "verify"
        /\ last_call'.claims = last_call.claims
        /\ last_call'.candidates = last_call.candidates)
           => last_call'.results = last_call.results]_vars

\* C26: retrieve_with_citations returns one citation for each candidate
\* passage that individually passes verification against the query, in the
\* candidates' order, and none for a candidate that fails: no candidate is
\* cited more often than it occurs among the candidates and no candidate
\* below the threshold is cited.
C26_OneCitationPerPassingCandidate ==
    last_call.op = "retrieve_with_citations"
        => LET query == last_call.claims[1]
               Passes(c) ==
                   verify_citation(query, <<c>>, DefaultThreshold,
                                   DefaultBoost).passed
               CitationOf(c) ==
                   [present |-> TRUE, title |-> c.title,
                    section |-> c.section, jurisdiction |-> c.jurisdiction]
               Occurrences(seq, x) ==
                   Cardinality({i \in 1..Len(seq) : seq[i] = x})
           IN  /\ last_call.citations
                      = Present([i \in 1..Len(last_call.candidates) |->
                                    IF Passes(last_call.candidates[i])
                                    THEN CitationOf(last_call.candidates[i])
                                    ELSE NoCitation])
               /\ \A c \in CandidatePool :
                      /\ Occurrences(last_call.citations, CitationOf(c))
                             <= Occurrences(last_call.candidates, c)
                      /\ ~Passes(c)
                             => Occurrences(last_call.citations,
                                            CitationOf(c)) = 0

\* C27: the passage list a retrieval returns (search in non-hybrid mode,
\* hybrid_search in hybrid mode) is sorted by non-increasing score and holds
\* at most max_results passages, and retrieve_with_citations returns at most
\* max_results citations.
C27_SortedAndLimited ==
    (last_call.op = "retrieve" /\ last_call.error = None)
        => /\ \A i \in 1..(Len(last_call.matches) - 1) :
                  last_call.matches[i].score >= last_call.matches[i + 1].score
           /\ Len(last_call.matches) <= last_call.context.max_results
           /\ Len(last_call.citations) <= last_call.context.max_results

C27_Witness ==
    /\ last_call.op = "retrieve" /\ last_call.error = None
    /\ last_call.context.hybrid_search
    /\ last_call.context.max_results = 2
    /\ \A id \in 1..3 : last_call.store[id].kind = "DocumentChunk"
    /\ Len(last_call.matches) = 2
    /\ last_call.matches[1].score > last_call.matches[2].score
    /\ Len(last_call.citations) = 2

\* C28: in hybrid mode each passage found by either ranking gets
\* 0.7 * vectorScore + 0.3 * keywordScore, where vectorScore is its
\* nearest-neighbour similarity and a score missing from a ranking counts
\* as 0; the passage with 0.9 / 0.2 gets 0.69 and ranks before the passage
\* with 0.5 / 0.95, which gets 0.635, whatever their jurisdictions (both
\* rankings being long enough to hold every passage of the store).
C28_HybridFusedScore ==
    (last_call.op = "retrieve" /\ last_call.error = None
         /\ last_call.context.hybrid_search)
        => LET FusedScores(id) ==
                   {(v * 7 + k * 3) \div 10 :
                        v \in {nearest_neighbour_score(id), 0},
                        k \in {keyword_overlap(id), 0}}
               store == last_call.store
           IN  /\ \A i \in 1..Len(last_call.matches) :
                      last_call.matches[i].score
                          \in FusedScores(last_call.matches[i].chunk)
               /\ (/\ \A id \in 1..MaxChunks : store[id].kind # "dict"
                   /\ store[1].kind = "DocumentChunk"
                   /\ store[2].kind = "DocumentChunk"
                   /\ last_call.context.max_results * 2 >= MaxChunks)
                      => /\ last_call.matches[1]
                                = [chunk |-> 1,
                                   score |-> (69 * ScoreUnit) \div 100]
                         /\ last_call.matches[2]
                                = [chunk |-> 2,
                                   score |-> (635 * ScoreUnit) \div 1000]

\* C29: a retrieval never fails because of incomplete passage metadata: it
\* returns; a nearest-neighbour hit whose passage cannot be loaded is not
\* among the matches; a match with no metadata gives no candidate; and every
\* match with metadata gives a candidate, with jurisdiction OTHER when the
\* metadata has none, also when the metadata has no instrument type.
C29_IncompleteMetadataTolerated ==
    last_call.op = "retrieve"
        => LET store == last_call.store
               HasMetadata(m) == store[m.chunk].metadata
               with_metadata == SelectSeq(last_call.matches, HasMetadata)
           IN  /\ last_call.error = None
               /\ \A i \in 1..Len(last_call.matches) :
                      store[last_call.matches[i].chunk].kind # "none"
               /\ Len(last_call.candidates) = Len(with_metadata)
               /\ \A i \in 1..Len(last_call.candidates) :
                      last_call.candidates[i].jurisdiction
                          = (IF store[with_metadata[i].chunk].jurisdiction
                                    = Absent
                             THEN "OTHER"
                             ELSE store[with_metadata[i].chunk].jurisdiction)

\* C30: after set_manual_override(m) with an available model m, every
\* get_model_for_capability call returns m, for every capability and every
\* context length, until the next set_manual_override (no other step changes
\* the override); set_manual_override with None or with an unavailable model
\* leaves no override in effect.
C30_ManualOverrideReturned ==
    [][LET Capabilities ==
               {"reasoning", "generation", "verification", "long_context"}
           ContextLengths == {0, 32000, 32001}
           Returns(override, model) ==
               \A capability \in Capabilities,
                  context_length \in ContextLengths :
                   get_model_for_capability(override, api_keys, capability,
                                            context_length) = model
       IN  /\ \A m \in OverrideChoices :
                  SetModelOverride(m)
                      => IF m # None /\ m \in Range(available_models(api_keys))
                         THEN Returns(override_model', m)
                         ELSE override_model' = None
           /\ (~\E m \in OverrideChoices : SetModelOverride(m))
                  => override_model' = override_model
           /\ override_model' # None
                  => Returns(override_model', override_model')]_vars

C30_Witness ==
    /\ override_model = "claude-3-opus"
    /\ pc[1] = "running" /\ Len(executed[1]) >= 2
    /\ get_model_for_capability(None, api_keys, "reasoning", 0)
           # override_model
    /\ get_model_for_capability(override_model, api_keys, "long_context",
                                32001) = "claude-3-opus"

\* C31: a search restricted to a jurisdiction (VectorStore.search with the
\* jurisdiction set, as retrieve_with_citations calls it in non-hybrid mode,
\* and search_by_jurisdiction) returns only passages tagged with that
\* jurisdiction: no passage tagged with another jurisdiction and no untagged
\* passage.
C31_OnlyRequestedJurisdiction ==
    (\/ last_call.op = "search_by_jurisdiction"
     \/ (last_call.op = "retrieve" /\ last_call.error = None
             /\ ~last_call.context.hybrid_search))
        => \A i \in 1..Len(last_call.matches) :
              LET chunk == last_call.store[last_call.matches[i].chunk]
              IN  chunk.jurisdiction = last_call.context.jurisdiction

\* C32: the passage list hybrid_search returns is deduplicated: no passage
\* appears twice; a passage found by both the nearest-neighbour ranking and
\* the lexical ranking carries both of its scores in its fused score
\* (0.7 times its score in the first plus 0.3 times its score in the second),
\* and it appears exactly once whenever the list is not cut at max_results.
C32_HybridDeduplicated ==
    (last_call.op = "retrieve" /\ last_call.error = None
         /\ last_call.context.hybrid_search)
        => LET limit == last_call.context.max_results
               vector_results == hybrid_vector_results(last_call.store, limit)
               keyword_results == keyword_search(last_call.store, limit * 2)
               both == ChunkIds(vector_results)
                           \intersect ChunkIds(keyword_results)
               Occurrences(id) ==
                   Cardinality({i \in 1..Len(last_call.matches) :
                                   last_call.matches[i].chunk = id})
           IN  /\ \A id \in 1..MaxChunks : Occurrences(id) <= 1
               /\ \A i \in 1..Len(last_call.matches) :
                      last_call.matches[i].chunk \in both
                          => last_call.matches[i].score
                                 = (ScoreIn(vector_results,
                                            last_call.matches[i].chunk) * 7
                                    + ScoreIn(keyword_results,
                                              last_call.matches[i].chunk) * 3)
                                       \div 10
               /\ Len(last_call.matches) < limit
                      => \A id \in both : Occurrences(id) = 1

C32_Witness ==
    /\ last_call.op = "retrieve" /\ last_call.error = None
    /\ last_call.context.hybrid_search
    /\ last_call.context.max_results = 2
    /\ Len(last_call.matches) = 2
    /\ last_call.matches[1].chunk = 1
    /\ 1 \in ChunkIds(hybrid_vector_results(last_call.store, 2))
    /\ 1 \in ChunkIds(keyword_search(last_call.store, 4))
    /\ last_call.matches[1].score
           > (nearest_neighbour_score(1) * 7) \div 10
    /\ last_call.matches[1].score > (keyword_overlap(1) * 3) \div 10

\* C33: once Intake has completed without error (it validated the model
\* availability), every model selection of the run (planner, drafter for a
\* short and for a long context, verifier) returns an available model and
\* never raises "No models available", whatever override is set meanwhile.
C33_SelectionsAvailableAfterIntake ==
    \A r \in Runs :
        (/\ pc[r] # "idle" /\ Len(executed[r]) >= 1
         /\ \E i \in 1..Len(st[r].thinking) :
                st[r].thinking[i] = <<"Preflight validation completed", "">>)
            => LET avail == Range(available_models(api_keys))
               IN  /\ get_planner_model(override_model, api_keys) \in avail
                   /\ get_verifier_model(override_model, api_keys) \in avail
                   /\ \A context_length \in {0, 32000, 32001} :
                          get_drafter_model(override_model, api_keys,
                                            context_length) \in avail

C33_Witness ==
    /\ api_keys = {"anthropic"} /\ override_model = None
    /\ pc[1] = "running" /\ Len(executed[1]) >= 3
    /\ st[1].thinking[2] = <<"Preflight validation completed", "">>
    /\ st[1].error = None
    /\ get_planner_model(override_model, api_keys) # DEFAULT_MODELS("reasoning")

\* C34: a workflow run record is COMPLETED only if the pipeline execution
\* that produced its output (the run() call of the endpoint) returned with
\* no error in its state and without a fault; a run whose pipeline ended
\* with an error is recorded FAILED, by the streaming and by the
\* synchronous endpoint.
C34_CompletedOnlyWithoutError ==
    (workflow_runs.present /\ pc[2] = "done"
        /\ workflow_stream.pc \in {"closed", "responded"})
        => /\ workflow_runs.status = "completed"
              => (result[2].success /\ result[2].error = None)
           /\ (~result[2].success \/ result[2].error # None)
              => workflow_runs.status = "failed"

\* C35: a streamed workflow run executes the pipeline once: the output and
\* citations of workflow_complete, and the output stored in the record, are
\* those of the execution whose events were streamed, and no stage is
\* called a second time for the request.
C35_StreamedRunExecutesOnce ==
    workflow_stream.complete.present
        => /\ workflow_stream.complete.output
                 = [present |-> TRUE, draft |-> st[1].draft,
                    citations |-> st[1].citations, error |-> st[1].error]
           /\ workflow_stream.complete.citations = st[1].citations
           /\ workflow_runs.output_data = workflow_stream.complete.output
           /\ \A node \in Nodes :
                 Cardinality({i \in DOMAIN executed[1] : executed[1][i] = node})
                   + Cardinality({i \in DOMAIN executed[2] :
                                     executed[2][i] = node}) <= 1

\* C36: a record that entered RUNNING is COMPLETED or FAILED once its event
\* stream has ended, whether the generator returned, the pipeline faulted
\* or the caller abandoned the stream, and a COMPLETED or FAILED record
\* keeps its status.
C36_RunningRecordSettles ==
    /\ []((workflow_runs.present
             /\ workflow_stream.pc \in {"closed", "abandoned"})
            => workflow_runs.status \in {"completed", "failed"})
    /\ [][workflow_runs.status \in {"completed", "failed"}
            => workflow_runs'.status = workflow_runs.status]_vars

\* C37: once a job in PROCESSING has been cancelled (FAILED, with the entry
\* "Job cancelled by user"), its status never becomes COMPLETED and the
\* entry stays in its errors as long as the job is in the store, whatever
\* the ingestion stream does afterwards.
C37_CancelledStaysCancelled ==
    [][(/\ ingestion_jobs.present
        /\ JobCancelled \in Range(ingestion_jobs.errors)
        /\ ingestion_jobs'.present)
          => /\ ingestion_jobs'.status # "completed"
             /\ JobCancelled \in Range(ingestion_jobs'.errors)]_vars

\* C38: when the ingestion stream has finished its file loop, the job's
\* processed_count + error_count is its file_count, and its status is
\* COMPLETED exactly when error_count is 0, FAILED otherwise.
C38_CountsAddUp ==
    (ingestion_stream.pc = "closed" /\ ingestion_jobs.present)
        => /\ ingestion_jobs.processed_count + ingestion_jobs.error_count
                 = ingestion_jobs.file_count
           /\ ingestion_jobs.status
                 = IF ingestion_jobs.error_count = 0 THEN "completed"
                   ELSE "failed"

C38_Witness ==
    /\ ingestion_stream.pc = "closed" /\ ingestion_jobs.present
    /\ ingestion_jobs.file_count = 3 /\ ingestion_jobs.error_count = 3
    /\ ingestion_jobs.errors[2] = "No text content extracted"
    /\ ingestion_jobs.errors[3] = "Error processing file: ImportError"
    /\ ingestion_jobs.status = "failed"

\* C39 as stated: a call of _make_request_with_retry ends after at most
\* max_retries + 1 passes of its loop, invokes the request at most
\* max_retries + 1 times, returns only the response of the request, and
\* invokes the request no more after it raised a client error (a 4xx status
\* other than 429).
C39_RetryAsStated ==
    /\ [](/\ provider_call.calls <= provider_call.max_retries + 1
          /\ provider_call.attempt <= provider_call.max_retries
          /\ provider_call.outcome = "returned"
                => (provider_call.response /\ provider_call.last_status = -1))
    /\ [][/\ provider_call.outcome = "pending"
                => \/ provider_call'.outcome \in {"returned", "raised"}
                   \/ provider_call'.attempt = provider_call.attempt + 1
          /\ (/\ provider_call.last_status >= 400
              /\ provider_call.last_status < 500
              /\ provider_call.last_status # 429)
                => provider_call'.calls = provider_call.calls]_vars

\* C39, amended: the same, where the client errors that end the call are
\* the 4xx statuses other than 429 and, in the Anthropic client, other than
\* 408 (which it retries).
C39_RetryBoundedAndStops ==
    /\ [](/\ provider_call.calls <= provider_call.max_retries + 1
          /\ provider_call.attempt <= provider_call.max_retries
          /\ provider_call.outcome = "returned"
                => (provider_call.response /\ provider_call.last_status = -1))
    /\ [][/\ provider_call.outcome = "pending"
                => \/ provider_call'.outcome \in {"returned", "raised"}
                   \/ provider_call'.attempt = provider_call.attempt + 1
          /\ (/\ provider_call.last_status >= 400
              /\ provider_call.last_status < 500
              /\ provider_call.last_status # 429
              /\ provider_call.client = "anthropic"
                    => provider_call.last_status # 408)
                => provider_call'.calls = provider_call.calls]_vars

C39_Witness ==
    /\ provider_call.client = "openai" /\ provider_call.max_retries = 2
    /\ provider_call.outcome = "raised" /\ provider_call.calls = 2
    /\ provider_call.attempt = 1 /\ provider_call.last_status = 408

\* C40: when the pipeline under an assistant stream (simple_assistant in
\* assist mode, the workflow in draft mode) ended with state.error set, the
\* stream ends with an error event and has sent no done and no chunk event.
C40_ErrorEndsAssistantStream ==
    (/\ assistant_stream.pc = "closed"
     /\ \/ assistant_stream.ran /\ assistant_stream.state_error # None
        \/ assistant_stream.forwarded > 0 /\ st[1].error # None)
        => /\ Last(assistant_stream.sse) = "error"
           /\ "done" \notin Range(assistant_stream.sse)
           /\ "chunk" \notin Range(assistant_stream.sse)

====
